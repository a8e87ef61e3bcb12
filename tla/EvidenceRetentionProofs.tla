------------------------ MODULE EvidenceRetentionProofs ------------------------
(***************************************************************************)
(* The retention side of EvidenceRowProofs: the statements and COMMITs of  *)
(* an iteration preserve RowsInductive, and the theorems on the rows of    *)
(* projection_effects that follow from it.                                 *)
(***************************************************************************)
EXTENDS EvidenceRowProofs

USE DEF tables

-------------------------------------------------------------------------------
(* Statements that move and delete no effect row *)

\* What an iteration has moved and deleted stays owned as it was while its locks
\* and the Deliveries it deletes only become more.
LEMMA ContinueRows ==
  ASSUME Inductive, RowsInductive, NEW w \in Workers,
         UNCHANGED <<tables, adm, now>>,
         \A v \in Workers \ {w} : wk'[v] = wk[v],
         \A q \in Procs \ {w} : holds'[q] = holds[q],
         wk'[w].moved = wk[w].moved, wk'[w].dropped = wk[w].dropped,
         holds[w] \subseteq holds'[w], Doomed(w) \subseteq Doomed(w)',
         DueStill(w)', TaskLocked(w)', RetiringOwns(w)',
         \A d \in wk'[w].batch :
           d \in fences \/ (d \in DOMAIN anchors
                              /\ anchors[d].at + DeliveryTTL <= wk'[w].at)
  PROVE  RowsInductive'
<1>0. MovedOwned(w) /\ DroppedOwned(w)
  BY DEF RowsInductive
<1>1. \A id, t : BindsTask(id, t)' <=> BindsTask(id, t)
  BY DEF BindsTask
<1>2. MovedOwned(w)'
  BY <1>0, <1>1 DEF MovedOwned
<1>3. DroppedOwned(w)'
  <2>. SUFFICES ASSUME NEW k \in wk[w].dropped
                PROVE  /\ k \in DOMAIN effects
                       /\ k[1] \notin TaskKinds =>
                            DeliveryOf(accepted[effects[k].src].rec) \in Doomed(w)'
                       /\ k[1] \in TaskKinds =>
                            /\ TaskLock(k[2]) \in holds'[w]
                            /\ \A id \in DOMAIN accepted :
                                 BindsTask(id, k[2])' =>
                                   DeliveryOf(accepted[id].rec) \in Doomed(w)'
    BY DEF DroppedOwned
  <2>. QED
    BY <1>0, <1>1 DEF DroppedOwned
<1>. QED
  BY <1>2, <1>3, QuietIterationRows

\* An iteration that has moved and deleted nothing.
LEMMA FreshIteration ==
  ASSUME Inductive, RowsInductive, NEW w \in Workers,
         UNCHANGED <<effects, anchors, fences, adm, now>>,
         DOMAIN accepted' = DOMAIN accepted,
         \A id \in DOMAIN accepted : accepted'[id].rec = accepted[id].rec,
         \A v \in Workers \ {w} : wk'[v] = wk[v],
         \A q \in Procs \ {w} : holds'[q] = holds[q],
         wk'[w].pc \notin DestroyingPCs, wk'[w].at <= now,
         wk'[w].moved = {}, wk'[w].dropped = {}, wk'[w].fenced = {},
         wk'[w].batch = {}
  PROVE  RowsInductive'
<1>1. DueStill(w)' /\ MovedOwned(w)' /\ DroppedOwned(w)'
  BY DEF DueStill, MovedOwned, DroppedOwned
<1>2. TaskLocked(w)' /\ RetiringOwns(w)'
  BY DEF TaskLocked, RetiringOwns, Destroying, DestroyingPCs, Emptied
<1>. QED
  BY <1>1, <1>2, QuietIterationRows

\* A rollback.
LEMMA GiveUpRows ==
  ASSUME Inductive, RowsInductive, NEW w \in Workers,
         UNCHANGED <<tables, adm, now>>,
         wk' = [wk EXCEPT ![w] = Asleep], Release(w) \/ UNCHANGED holds
  PROVE  RowsInductive'
<1>1. /\ wk'[w].pc = "sleep" /\ wk'[w].at = 0
      /\ wk'[w].moved = {} /\ wk'[w].dropped = {} /\ wk'[w].fenced = {}
      /\ wk'[w].batch = {}
      /\ \A v \in Workers \ {w} : wk'[v] = wk[v]
  BY DEF Asleep, Inductive, TypeOK, ProcessesOK
<1>2. \A q \in Procs \ {w} : holds'[q] = holds[q]
  BY LockSteps DEF Procs
<1>3. 0 <= now
  BY DEF Inductive, TypeOK
<1>. QED
  BY <1>1, <1>2, <1>3, FreshIteration DEF DestroyingPCs

\* The first of a sorted set are among its elements.
LEMMA FirstOfIn ==
  ASSUME NEW S, NEW n
  PROVE  FirstOf(S, n) \subseteq S
  BY DEF FirstOf

\* Planning, the scrub, the advisory locks and the DELETE of the markers.
LEMMA QuietRetentionRows ==
  ASSUME Inductive, RowsInductive, NEW w \in Workers,
         \/ Wake(w) \/ PlanExpiry(w) \/ ScrubMember(w) \/ PlanDeletion(w)
         \/ LockRetiring(w) \/ LockRetiringTask(w) \/ DeleteMarkers(w)
  PROVE  RowsInductive'
<1>. USE DEF WkUnchanged, Work
<1>0. /\ w \in Procs /\ w \notin Conns /\ wk = [v \in Workers |-> wk[v]]
      /\ wk[w] \in RetentionType /\ now \in Nat
      /\ DueStill(w) /\ TaskLocked(w) /\ RetiringOwns(w) /\ PlannedStillDue
  BY ProcsAssumption DEF Procs, Inductive, TypeOK, ProcessesOK, RetentionOK,
                         RowsInductive
<1>a. /\ \A lock : Acquire(w, lock) =>
           /\ \A q \in Procs \ {w} : holds'[q] = holds[q]
           /\ holds'[w] = holds[w] \cup {lock}
      /\ UNCHANGED holds => \A q \in Procs \ {w} : holds'[q] = holds[q]
  BY <1>0, LockSteps
<1>b. \A d \in wk[w].batch :
        d \in fences \/ (d \in DOMAIN anchors
                           /\ anchors[d].at + DeliveryTTL <= wk[w].at)
  BY <1>0 DEF PlannedStillDue
<1>1. CASE Wake(w)
  <2>1. /\ wk'[w].pc = "plan_expiry" /\ wk'[w].at = now
        /\ wk'[w].moved = {} /\ wk'[w].dropped = {} /\ wk'[w].fenced = {}
        /\ wk'[w].batch = {}
        /\ \A v \in Workers \ {w} : wk'[v] = wk[v]
    BY <1>0, <1>1 DEF Wake, Asleep
  <2>2. wk'[w].at <= now
    BY <1>0, <2>1
  <2>. QED
    BY <1>1, <1>a, <2>1, <2>2, FreshIteration DEF Wake, DestroyingPCs
<1>2. CASE PlanExpiry(w)
  <2>. DEFINE planned == FirstOf(Expirable(w), BatchSize)
  <2>1. CASE Refused(planned)
    BY <1>2, <2>1, GiveUpRows DEF PlanExpiry
  <2>2. CASE ~Refused(planned)
    <3>. HIDE DEF planned
    <3>1. wk' = [wk EXCEPT ![w] = [wk[w] EXCEPT !.pc = "scrub", !.raws = planned]]
      BY <1>2, <2>2 DEF PlanExpiry, planned
    <3>2. /\ wk'[w].pc = "scrub" /\ wk'[w].at = wk[w].at
          /\ wk'[w].moved = wk[w].moved /\ wk'[w].dropped = wk[w].dropped
          /\ wk'[w].fenced = wk[w].fenced /\ wk'[w].batch = wk[w].batch
          /\ \A v \in Workers \ {w} : wk'[v] = wk[v]
      BY <1>0, <3>1 DEF RetentionType
    <3>3. DueStill(w)' /\ Doomed(w) \subseteq Doomed(w)'
      BY <1>0, <1>2, <3>2 DEF PlanExpiry, DueStill, Doomed, Emptied
    <3>4. TaskLocked(w)' /\ RetiringOwns(w)'
      BY <3>2 DEF TaskLocked, RetiringOwns, Destroying, DestroyingPCs, Emptied
    <3>. QED
      BY <1>2, <1>a, <1>b, <3>2, <3>3, <3>4, ContinueRows DEF PlanExpiry
  <2>. QED
    BY <2>1, <2>2
<1>3. CASE ScrubMember(w)
  <2>. DEFINE id == MinOf(wk[w].raws)
              raws == wk[w].raws \ {id}
              marked == IF id \in markers THEN wk[w].marked
                                          ELSE wk[w].marked \cup {id}
  <2>1. CASE id \notin markers /\ id \notin DOMAIN accepted
    BY <1>3, <2>1, GiveUpRows DEF ScrubMember, GiveUp
  <2>2. CASE ~(id \notin markers /\ id \notin DOMAIN accepted)
    <3>1. /\ wk' = [wk EXCEPT ![w] = [wk[w] EXCEPT !.raws = raws,
                                                   !.marked = marked]]
          /\ Acquire(w, RawLock(id)) /\ UNCHANGED <<tables, adm, now>>
      BY <1>3, <2>2 DEF ScrubMember
    <3>. HIDE DEF raws, marked, id
    <3>2. /\ wk'[w].pc = "scrub" /\ wk'[w].at = wk[w].at
          /\ wk'[w].moved = wk[w].moved /\ wk'[w].dropped = wk[w].dropped
          /\ wk'[w].fenced = wk[w].fenced /\ wk'[w].batch = wk[w].batch
          /\ \A v \in Workers \ {w} : wk'[v] = wk[v]
      BY <1>0, <1>3, <3>1 DEF RetentionType, ScrubMember
    <3>3. DueStill(w)' /\ Doomed(w) \subseteq Doomed(w)'
      BY <1>0, <1>3, <3>2 DEF ScrubMember, DueStill, Doomed, Emptied
    <3>4. TaskLocked(w)' /\ RetiringOwns(w)'
      BY <3>2 DEF TaskLocked, RetiringOwns, Destroying, DestroyingPCs, Emptied
    <3>5. /\ \A q \in Procs \ {w} : holds'[q] = holds[q]
          /\ holds[w] \subseteq holds'[w]
      BY <1>a, <3>1
    <3>. QED
      BY <1>b, <3>1, <3>2, <3>3, <3>4, <3>5, ContinueRows
  <2>. QED
    BY <2>1, <2>2
<1>4. CASE PlanDeletion(w)
  <2>. DEFINE batch == FirstOf(Retirable(w), BatchSize)
  <2>1. batch \subseteq Retirable(w)
    BY FirstOfIn
  <2>. HIDE DEF batch
  <2>2. wk' = [wk EXCEPT ![w] = [wk[w] EXCEPT !.pc = "delivery_lock",
                                              !.batch = batch]]
    BY <1>4 DEF PlanDeletion, batch
  <2>3. /\ wk'[w].pc = "delivery_lock" /\ wk'[w].at = wk[w].at
        /\ wk'[w].moved = wk[w].moved /\ wk'[w].dropped = wk[w].dropped
        /\ wk'[w].fenced = wk[w].fenced /\ wk'[w].batch = batch
        /\ \A v \in Workers \ {w} : wk'[v] = wk[v]
    BY <1>0, <2>2 DEF RetentionType
  <2>4. DueStill(w)' /\ Doomed(w) \subseteq Doomed(w)'
    BY <1>0, <1>4, <2>3 DEF PlanDeletion, DueStill, Doomed, Emptied
  <2>5. TaskLocked(w)' /\ RetiringOwns(w)'
    BY <2>3 DEF TaskLocked, RetiringOwns, Destroying, DestroyingPCs, Emptied
  <2>6. \A d \in batch : d \in DOMAIN anchors
                           /\ anchors[d].at + DeliveryTTL <= wk[w].at
    BY <2>1 DEF Retirable
  <2>. QED
    BY <1>4, <1>a, <2>3, <2>4, <2>5, <2>6, ContinueRows DEF PlanDeletion
<1>5. CASE LockRetiring(w)
  <2>1. /\ wk'[w].pc = "check" /\ wk'[w].at = wk[w].at
        /\ wk'[w].moved = wk[w].moved /\ wk'[w].dropped = wk[w].dropped
        /\ wk'[w].fenced = wk[w].fenced /\ wk'[w].batch = wk[w].batch
        /\ \A v \in Workers \ {w} : wk'[v] = wk[v]
    BY <1>0, <1>5 DEF RetentionType, LockRetiring
  <2>2. DueStill(w)' /\ Doomed(w) \subseteq Doomed(w)'
    BY <1>0, <1>5, <2>1 DEF LockRetiring, DueStill, Doomed, Emptied
  <2>3. TaskLocked(w)' /\ RetiringOwns(w)'
    BY <2>1 DEF TaskLocked, RetiringOwns, Destroying, DestroyingPCs, Emptied
  <2>4. /\ \A q \in Procs \ {w} : holds'[q] = holds[q]
        /\ holds[w] \subseteq holds'[w]
    BY <1>5, <1>a DEF LockRetiring
  <2>. QED
    BY <1>5, <1>b, <2>1, <2>2, <2>3, <2>4, ContinueRows DEF LockRetiring
<1>6. CASE LockRetiringTask(w)
  <2>1. /\ wk'[w].pc = "preserve" /\ wk'[w].at = wk[w].at
        /\ wk'[w].task = wk[w].task
        /\ wk'[w].moved = wk[w].moved /\ wk'[w].dropped = wk[w].dropped
        /\ wk'[w].fenced = wk[w].fenced /\ wk'[w].batch = wk[w].batch
        /\ \A v \in Workers \ {w} : wk'[v] = wk[v]
    BY <1>0, <1>6 DEF RetentionType, LockRetiringTask
  <2>2. DueStill(w)' /\ Doomed(w) \subseteq Doomed(w)' /\ RetiringOwns(w)'
    BY <1>0, <1>6, <2>1
    DEF LockRetiringTask, DueStill, Doomed, Emptied, RetiringOwns
  <2>3. /\ \A q \in Procs \ {w} : holds'[q] = holds[q]
        /\ holds'[w] = holds[w] \cup {TaskLock(wk[w].task)}
    BY <1>6, <1>a DEF LockRetiringTask
  <2>4. MembersOf(Retiring(w))' = MembersOf(Retiring(w)) /\ Destroying(w)
    BY <1>6, <2>1 DEF MembersOf, Retiring, LockRetiringTask, Destroying,
                      DestroyingPCs
  <2>5. TaskLocked(w)'
    BY <1>0, <1>6, <2>1, <2>3, <2>4 DEF TaskLocked, LockRetiringTask
  <2>. QED
    BY <1>6, <1>b, <2>1, <2>2, <2>3, <2>5, ContinueRows DEF LockRetiringTask
<1>7. CASE DeleteMarkers(w)
  <2>. DEFINE unmarked == wk[w].unmarked \cup (markers \cap MembersOf(Retiring(w)))
  <2>. HIDE DEF unmarked
  <2>0. wk' = [wk EXCEPT ![w] = [wk[w] EXCEPT !.pc = "delete_records",
                                              !.unmarked = unmarked]]
    BY <1>7 DEF DeleteMarkers, unmarked
  <2>1. /\ wk'[w].pc = "delete_records" /\ wk'[w].at = wk[w].at
        /\ wk'[w].moved = wk[w].moved /\ wk'[w].dropped = wk[w].dropped
        /\ wk'[w].fenced = wk[w].fenced /\ wk'[w].batch = wk[w].batch
        /\ \A v \in Workers \ {w} : wk'[v] = wk[v]
    BY <1>0, <2>0 DEF RetentionType
  <2>2. /\ Retiring(w)' = Retiring(w)
        /\ MembersOf(Retiring(w))' = MembersOf(Retiring(w))
        /\ Destroying(w) /\ Emptied(w) /\ Emptied(w)'
    BY <1>7, <2>1 DEF MembersOf, Retiring, DeleteMarkers, Destroying,
                      DestroyingPCs, Emptied
  <2>3. DueStill(w)' /\ Doomed(w) \subseteq Doomed(w)'
    BY <1>0, <1>7, <2>1, <2>2 DEF DeleteMarkers, DueStill, Doomed
  <2>4. TaskLocked(w)'
    BY <1>0, <1>7, <2>1, <2>2 DEF DeleteMarkers, TaskLocked
  <2>5. OwnedBy(w, Retiring(w))' = OwnedBy(w, Retiring(w))
    BY <1>7, <2>1, <2>2, SameView DEF DeleteMarkers, OwnedBy
  <2>6. RetiringOwns(w)'
    BY <1>0, <2>1, <2>2, <2>5 DEF RetiringOwns
  <2>. QED
    BY <1>7, <1>a, <1>b, <2>1, <2>3, <2>4, <2>6, ContinueRows DEF DeleteMarkers
<1>. QED
  BY <1>1, <1>2, <1>3, <1>4, <1>5, <1>6, <1>7


-------------------------------------------------------------------------------
(* The rows of one Delivery *)

\* A row that only one Delivery's records mention and that an iteration has
\* dropped belonged to a Delivery that it is deleting.
LEMMA DroppedLocal ==
  ASSUME Inductive, RowsInductive, NEW w \in Workers, NEW k \in wk[w].dropped,
         k[1] \notin TaskKinds, Local(k), NEW r \in Records, Mentions(r, k)
  PROVE  DeliveryOf(r) \in Doomed(w)
<1>0. DroppedOwned(w) /\ SourceOwns
  BY DEF RowsInductive
<1>1. /\ k \in DOMAIN effects
      /\ DeliveryOf(accepted[effects[k].src].rec) \in Doomed(w)
  BY <1>0 DEF DroppedOwned
<1>2. accepted[effects[k].src].rec \in Records
  BY <1>1 DEF Inductive, SourcesAccepted, TypeOK, TablesOK, TableType
<1>3. Mentions(accepted[effects[k].src].rec, k)
  BY <1>0, <1>1, AssertsMentions DEF SourceOwns, Owns
<1>. QED
  BY <1>1, <1>2, <1>3 DEF Local

\* A live binding has its membership row and its guard row, with its Task.
LEMMA BindingRows ==
  ASSUME Inductive, RowsInductive, NEW id \in DOMAIN accepted,
         NEW r \in Records, r = accepted[id].rec, IsBinding(r)
  PROVE  /\ Membership(r) \in DOMAIN effects
         /\ Guard(DeliveryOf(r)) \in DOMAIN effects
         /\ Get(effects[Guard(DeliveryOf(r))].payload, "task_id") = r.attrs.task_id
<1>0. GuardedComplete
  BY DEF RowsInductive
<1>1. PICK e \in EffectsOf(r) : EffectKey(e) = Membership(r)
  BY BindingAsserts DEF Asserts
<1>2. PICK g \in EffectsOf(r) :
        /\ g.op = "first_write" /\ EffectKey(g) = Guard(DeliveryOf(r))
        /\ Get(g.payload, "task_id") = r.attrs.task_id
  BY BindingAsserts
<1>3. Guarded(EffectKey(e)) /\ Guarded(EffectKey(g))
  BY <1>1, <1>2, BindingRowsLocal DEF Guarded, Membership
<1>4. Holds(e) /\ Holds(g)
  BY <1>0, <1>3 DEF GuardedComplete
<1>. QED
  BY <1>1, <1>2, <1>4 DEF Holds

\* The guard row names the Task of the Delivery, whose lock is taken next;
\* without a guard row the Delivery is in no Task.
LEMMA CheckRetiringRows ==
  ASSUME Inductive, RowsInductive, NEW w \in Workers, CheckRetiring(w)
  PROVE  RowsInductive'
<1>d. PICK d \in Deliveries : d = Retiring(w) /\ d \in wk[w].batch
  <2>1. wk[w].batch \subseteq Deliveries /\ wk[w].batch # {}
    BY DEF CheckRetiring, Inductive, TypeOK, ProcessesOK, RetentionOK,
           RetentionType
  <2>2. Deliveries \subseteq Nat
    BY DeliveriesNat
  <2>. QED
    BY <2>1, <2>2, MinOfIn DEF Retiring
<1>0. /\ w \in Procs /\ w \notin Conns /\ wk = [v \in Workers |-> wk[v]]
      /\ wk[w] \in RetentionType /\ wk[w].pc = "check"
      /\ DueStill(w) /\ DroppedOwned(w) /\ PlannedStillDue
  BY ProcsAssumption DEF Procs, Inductive, TypeOK, ProcessesOK, RetentionOK,
                         RowsInductive, CheckRetiring
<1>b. \A f \in wk[w].batch :
        f \in fences \/ (f \in DOMAIN anchors
                           /\ anchors[f].at + DeliveryTTL <= wk[w].at)
  BY <1>0 DEF PlannedStillDue
<1>1. CASE GiveUp(w)
  BY <1>1, GiveUpRows DEF CheckRetiring, GiveUp, Work, WkUnchanged
<1>2. CASE ~GiveUp(w)
  <2>. DEFINE batch == wk[w].batch \ {d}
              task == Get(View(w)[Guard(d)].payload, "task_id")
  <2>0. UNCHANGED <<tables, adm, now, holds>>
    BY <1>2 DEF CheckRetiring, Work, WkUnchanged
  <2>a. \A q \in Procs \ {w} : holds'[q] = holds[q]
    BY <1>0, <2>0, LockSteps
  <2>1. \/ wk' = [wk EXCEPT ![w] = [wk[w] EXCEPT !.pc = "delivery_lock",
                                                 !.batch = batch]]
        \/ /\ Guard(d) \in DOMAIN View(w)
           /\ wk' = [wk EXCEPT ![w] = [wk[w] EXCEPT !.pc = "task_lock",
                                                    !.task = task]]
        \/ /\ Guard(d) \notin DOMAIN View(w)
           /\ wk' = [wk EXCEPT ![w] = [wk[w] EXCEPT !.pc = "delete_effects"]]
    BY <1>d, <1>2 DEF CheckRetiring, Work, Guard
  <2>. HIDE DEF batch, task
  <2>2. /\ wk'[w].pc \in {"delivery_lock", "task_lock", "delete_effects"}
        /\ wk'[w].at = wk[w].at
        /\ wk'[w].moved = wk[w].moved /\ wk'[w].dropped = wk[w].dropped
        /\ wk'[w].fenced = wk[w].fenced
        /\ wk'[w].batch = batch \/ wk'[w].batch = wk[w].batch
        /\ wk'[w].pc # "delivery_lock" => wk'[w].batch = wk[w].batch
        /\ \A v \in Workers \ {w} : wk'[v] = wk[v]
    <3>1. CASE wk' = [wk EXCEPT ![w] = [wk[w] EXCEPT !.pc = "delivery_lock",
                                                     !.batch = batch]]
      BY <1>0, <3>1 DEF RetentionType
    <3>2. CASE wk' = [wk EXCEPT ![w] = [wk[w] EXCEPT !.pc = "task_lock",
                                                     !.task = task]]
      BY <1>0, <3>2 DEF RetentionType
    <3>3. CASE wk' = [wk EXCEPT ![w] = [wk[w] EXCEPT !.pc = "delete_effects"]]
      BY <1>0, <3>3 DEF RetentionType
    <3>. QED
      BY <2>1, <3>1, <3>2, <3>3
  <2>3. DueStill(w)' /\ Doomed(w) \subseteq Doomed(w)'
    BY <1>0, <2>0, <2>2 DEF DueStill, Doomed, Emptied, batch
  <2>4. /\ wk'[w].pc # "delivery_lock" => Retiring(w)' = d
        /\ MembersOf(d)' = MembersOf(d)
        /\ View(w)' = View(w)
    BY <1>d, <2>0, <2>2, SameView DEF Retiring, MembersOf
  <2>5. ASSUME NEW id \in MembersOf(d), IsBinding(accepted[id].rec)
        PROVE  /\ Guard(d) \in DOMAIN View(w)
               /\ Get(View(w)[Guard(d)].payload, "task_id")
                    = accepted[id].rec.attrs.task_id
    <3>0. /\ id \in DOMAIN accepted /\ DeliveryOf(accepted[id].rec) = d
          /\ accepted[id].rec \in Records
      BY DEF MembersOf, Inductive, TypeOK, TablesOK, TableType
    <3>1. /\ Guard(d) \in DOMAIN effects
          /\ Get(effects[Guard(d)].payload, "task_id")
               = accepted[id].rec.attrs.task_id
      BY <2>5, <3>0, BindingRows
    <3>2. Mentions(accepted[id].rec, Guard(d))
      BY <2>5, <3>0, BindingAsserts DEF Mentions
    <3>3. Local(Guard(d)) /\ Guard(d)[1] \notin TaskKinds
      BY BindingRowsLocal DEF Guard, TaskKinds
    <3>4. d \notin Doomed(w)
      BY <1>d, <1>0 DEF DueStill, Doomed, Emptied
    <3>5. Guard(d) \notin wk[w].dropped
      BY <3>0, <3>2, <3>3, <3>4, DroppedLocal
    <3>6. Guard(d) \in DOMAIN View(w)
      BY <3>1, <3>5, ViewSource
    <3>. QED
      BY <3>1, <3>6, ViewOwns
  <2>6. TaskLocked(w)'
    <3>1. ASSUME wk'[w].pc = "task_lock", NEW id \in MembersOf(d),
                 IsBinding(accepted[id].rec)
          PROVE  wk'[w].task = accepted[id].rec.attrs.task_id
      <4>1. wk'[w].task = task
        BY <1>0, <2>1, <3>1 DEF RetentionType
      <4>. QED
        BY <2>5, <3>1, <4>1 DEF task
    <3>2. wk'[w].pc = "delete_effects" =>
            \A id \in MembersOf(d) : ~IsBinding(accepted[id].rec)
      BY <1>0, <2>1, <2>5 DEF RetentionType
    <3>. QED
      BY <2>0, <2>2, <2>4, <3>1, <3>2 DEF TaskLocked, Destroying, DestroyingPCs
  <2>7. RetiringOwns(w)'
    <3>1. ASSUME wk'[w].pc = "delete_effects", NEW k \in OwnedBy(w, d)
          PROVE  k[1] \notin TaskKinds
      <4>1. k \in DOMAIN View(w) /\ View(w)[k].src \in MembersOf(d)
        BY DEF OwnedBy
      <4>2. ~IsBinding(accepted[View(w)[k].src].rec)
        BY <1>0, <2>1, <2>5, <3>1, <4>1 DEF RetentionType
      <4>. QED
        BY <4>1, <4>2, ViewOwns DEF Owns, BindsTask
    <3>2. wk'[w].pc = "delete_effects" =>
            OwnedBy(w, Retiring(w))' = OwnedBy(w, d)
      BY <2>4 DEF OwnedBy
    <3>. QED
      BY <2>2, <3>1, <3>2 DEF RetiringOwns, Emptied
  <2>8. \A f \in wk'[w].batch :
          f \in fences \/ (f \in DOMAIN anchors
                             /\ anchors[f].at + DeliveryTTL <= wk'[w].at)
    BY <1>b, <2>2 DEF batch
  <2>. QED
    BY <2>0, <2>a, <2>2, <2>3, <2>6, <2>7, <2>8, ContinueRows
<1>. QED
  BY <1>1, <1>2


\* The record that a Task row is moved to is a binding of another Delivery to
\* the Task.
LEMMA HeirBinds ==
  ASSUME Inductive, RowsInductive, NEW w \in Workers, NEW d, NEW t,
         OtherMembers(w, d, t) # {}
  PROVE  /\ Heir(w, d, t) \in DOMAIN accepted \ wk[w].gone
         /\ BindsTask(Heir(w, d, t), t)
         /\ Heir(w, d, t) \notin MembersOf(d)
<1>1. OtherMembers(w, d, t) \subseteq Nat
  BY DeliveriesNat DEF OtherMembers
<1>2. MinOf(OtherMembers(w, d, t)) \in OtherMembers(w, d, t)
  BY <1>1, MinOfIn
<1>3. PICK f \in OtherMembers(w, d, t) : f = MinOf(OtherMembers(w, d, t))
  BY <1>2
<1>. DEFINE m == <<"delivery_task_membership", t, f>>
<1>4. m \in DOMAIN View(w) /\ f # d
  BY DEF OtherMembers
<1>5. Heir(w, d, t) = View(w)[m].src
  BY <1>3 DEF Heir
<1>6. /\ View(w)[m].src \in DOMAIN accepted \ wk[w].gone
      /\ Owns(View(w)[m].src, m)
  BY <1>4, ViewSource, ViewOwns
<1>7. accepted[View(w)[m].src].rec \in Records
  BY <1>6 DEF Inductive, TypeOK, TablesOK, TableType
<1>8. Asserts(accepted[View(w)[m].src].rec, m)
  BY <1>6 DEF Owns, TaskKinds
<1>9. /\ IsBinding(accepted[View(w)[m].src].rec)
      /\ accepted[View(w)[m].src].rec.attrs.task_id = t
      /\ DeliveryOf(accepted[View(w)[m].src].rec) = f
  BY <1>7, <1>8, AssertsMentions, MentionsBinding
<1>. QED
  BY <1>4, <1>5, <1>6, <1>9 DEF BindsTask, MembersOf

\* The key of a Task row is one of the two keys of the Task.
LEMMA TaskRowKey ==
  ASSUME Inductive, NEW k \in DOMAIN effects, k[1] \in TaskKinds
  PROVE  k \in TaskKeys(k[2])
<1>1. k \in EffectKeys
  BY DEF Inductive, TypeOK, TablesOK, TableType
<1>2. PICK r \in Records : Mentions(r, k)
  BY <1>1 DEF EffectKeys, AllEffects, Mentions
<1>3. k = <<k[1], k[2]>>
  BY <1>2, MentionsBinding
<1>. QED
  BY <1>3 DEF TaskKinds, TaskKeys

\* A Task row that the retiring Delivery owns is a row of the Task whose lock
\* the iteration has asked for.
LEMMA OwnedTaskKey ==
  ASSUME Inductive, RowsInductive, NEW w \in Workers, wk[w].pc = "preserve",
         NEW k \in OwnedBy(w, Retiring(w)), k[1] \in TaskKinds
  PROVE  k[2] = wk[w].task /\ k \in TaskKeys(wk[w].task)
<1>1. k \in DOMAIN View(w) /\ View(w)[k].src \in MembersOf(Retiring(w))
  BY DEF OwnedBy
<1>2. BindsTask(View(w)[k].src, k[2])
  BY <1>1, ViewOwns DEF Owns
<1>3. TaskLocked(w) /\ Destroying(w)
  BY DEF RowsInductive, Destroying, DestroyingPCs
<1>4. k[2] = wk[w].task
  BY <1>1, <1>2, <1>3 DEF TaskLocked, BindsTask
<1>. QED
  BY <1>1, <1>4, TaskRowKey, ViewSource

\* If no membership of another Delivery in the Task is to be seen, then every
\* other Delivery in the Task is being deleted too.
LEMMA LastInTask ==
  ASSUME Inductive, RowsInductive, NEW w \in Workers, wk[w].pc = "preserve",
         OtherMembers(w, Retiring(w), wk[w].task) = {},
         NEW id \in DOMAIN accepted, BindsTask(id, wk[w].task)
  PROVE  DeliveryOf(accepted[id].rec) \in wk[w].fenced \cup {Retiring(w)}
<1>1. PICK r \in Records : r = accepted[id].rec
  BY DEF Inductive, TypeOK, TablesOK, TableType
<1>2. IsBinding(r) /\ r.attrs.task_id = wk[w].task
  BY <1>1 DEF BindsTask
<1>3. /\ Membership(r) \in DOMAIN effects
      /\ Mentions(r, Membership(r))
  BY <1>1, <1>2, BindingRows, BindingAsserts, AssertsMentions
<1>4. DeliveryOf(r) \in Deliveries
  BY <1>2, DeliveryOfRecord DEF IsBinding
<1>5. CASE Membership(r) \in DOMAIN View(w)
  BY <1>1, <1>2, <1>4, <1>5 DEF OtherMembers, Membership
<1>6. CASE Membership(r) \in wk[w].dropped
  <2>1. Local(Membership(r)) /\ Membership(r)[1] \notin TaskKinds
    BY BindingRowsLocal DEF Membership, TaskKinds
  <2>2. DeliveryOf(r) \in Doomed(w)
    BY <1>3, <1>6, <2>1, DroppedLocal
  <2>. QED
    BY <1>1, <2>2 DEF Doomed, Emptied
<1>. QED
  BY <1>3, <1>5, <1>6, ViewSource


\* Re-sourcing the Task's rows: all those the Delivery owns go to a binding of
\* another Delivery, if the Task has one that is not being deleted.
LEMMA PreserveTaskRows ==
  ASSUME Inductive, RowsInductive, NEW w \in Workers, PreserveTask(w)
  PROVE  RowsInductive'
<1>. DEFINE d == Retiring(w)
            t == wk[w].task
            h == Heir(w, d, t)
            keys == IF OtherMembers(w, d, t) = {} THEN {} ELSE Preserved(w, d, t)
            moved == {m \in wk[w].moved : m[1] \notin keys}
                       \cup {<<k, h>> : k \in keys}
<1>0. /\ w \in Procs /\ w \notin Conns /\ wk = [v \in Workers |-> wk[v]]
      /\ wk[w] \in RetentionType /\ wk[w].pc = "preserve"
      /\ DueStill(w) /\ MovedOwned(w) /\ DroppedOwned(w) /\ TaskLocked(w)
      /\ PlannedStillDue /\ SourcesRemain(w) /\ Destroying(w)
  BY ProcsAssumption DEF Procs, Inductive, TypeOK, ProcessesOK, RetentionOK,
                         RowsInductive, PreserveTask, Destroying, DestroyingPCs
<1>1. CASE keys # {} /\ h \notin DOMAIN accepted \ wk[w].gone
  BY <1>1, GiveUpRows DEF PreserveTask, GiveUp, Work, WkUnchanged
<1>2. CASE ~(keys # {} /\ h \notin DOMAIN accepted \ wk[w].gone)
  <2>1. /\ UNCHANGED <<tables, adm, now, holds>>
        /\ wk' = [wk EXCEPT ![w] = [wk[w] EXCEPT !.pc = "delete_effects",
                                                 !.task = Null,
                                                 !.moved = moved]]
    BY <1>2 DEF PreserveTask, Work, WkUnchanged
  <2>2. /\ OtherMembers(w, d, t) = {} => keys = {} /\ moved = wk[w].moved
        /\ OtherMembers(w, d, t) # {} => keys = TaskKeys(t) \cap OwnedBy(w, d)
        /\ keys \subseteq TaskKeys(t) \cap OwnedBy(w, d)
    BY DEF Preserved
  <2>3. /\ \A m \in moved : \/ m \in wk[w].moved /\ m[1] \notin keys
                            \/ m[1] \in keys /\ m[2] = h
        /\ \A m \in wk[w].moved : m[1] \notin keys => m \in moved
        /\ \A k \in keys : <<k, h>> \in moved
    <3>1. ASSUME NEW m \in moved
          PROVE  \/ m \in wk[w].moved /\ m[1] \notin keys
                 \/ m[1] \in keys /\ m[2] = h
      OBVIOUS
    <3>2. \A m \in wk[w].moved : m[1] \notin keys => m \in moved
      OBVIOUS
    <3>3. \A k \in keys : <<k, h>> \in moved
      OBVIOUS
    <3>. QED
      BY <3>1, <3>2, <3>3
  <2>. HIDE DEF moved, keys
  <2>4. /\ wk'[w].moved = moved /\ wk'[w].pc = "delete_effects"
        /\ wk'[w].dropped = wk[w].dropped /\ wk'[w].at = wk[w].at
        /\ wk'[w].fenced = wk[w].fenced /\ wk'[w].batch = wk[w].batch
        /\ \A v \in Workers \ {w} : wk'[v] = wk[v]
    BY <1>0, <2>1 DEF RetentionType
  <2>5. /\ Retiring(w)' = d /\ MembersOf(d)' = MembersOf(d)
        /\ Doomed(w)' = Doomed(w) /\ ~Emptied(w)' /\ Destroying(w)'
        /\ \A id, u : BindsTask(id, u)' <=> BindsTask(id, u)
    BY <1>0, <2>1, <2>4 DEF Retiring, MembersOf, Doomed, Emptied, BindsTask,
                            Destroying, DestroyingPCs
  <2>6. DueStill(w)'
    BY <1>0, <2>1, <2>4 DEF DueStill
  <2>7. DroppedOwned(w)'
    BY <1>0, <2>1, <2>4, <2>5 DEF DroppedOwned
  <2>8. ASSUME NEW k \in OwnedBy(w, d), k[1] \in TaskKinds
        PROVE  /\ k[2] = t /\ k \in TaskKeys(t)
               /\ TaskLock(t) \in holds[w]
    <3>1. k[2] = t /\ k \in TaskKeys(t)
      BY <1>0, <2>8, OwnedTaskKey
    <3>2. TaskLock(k[2]) \in holds[w]
      BY <1>0, <2>8, OwnedTaskLocked
    <3>. QED
      BY <3>1, <3>2
  <2>9. \A k \in keys : /\ k[1] \in TaskKinds /\ k[2] = t
                        /\ TaskLock(t) \in holds[w]
                        /\ BindsTask(h, t) /\ h \notin MembersOf(d)
    <3>1. keys # {} => BindsTask(h, t) /\ h \notin MembersOf(d)
      BY <2>2, HeirBinds
    <3>2. \A k \in keys : k[1] \in TaskKinds
      BY <2>2 DEF TaskKeys, TaskKinds
    <3>. QED
      BY <2>2, <2>8, <3>1, <3>2
  <2>10. MovedOwned(w)'
    <3>. SUFFICES ASSUME NEW m \in moved
                  PROVE  /\ m[1][1] \in TaskKinds
                         /\ BindsTask(m[2], m[1][2])
                         /\ TaskLock(m[1][2]) \in holds[w]
      BY <2>1, <2>4, <2>5 DEF MovedOwned
    <3>1. CASE m \in wk[w].moved
      BY <1>0, <3>1 DEF MovedOwned
    <3>2. CASE m[1] \in keys /\ m[2] = h
      BY <2>9, <3>2
    <3>. QED
      BY <2>3, <3>1, <3>2
  <2>11. TaskLocked(w)'
    BY <1>0, <2>1, <2>4, <2>5 DEF TaskLocked
  <2>12. RetiringOwns(w)'
    <3>. SUFFICES ASSUME NEW k \in DOMAIN View(w)',
                         View(w)'[k].src \in MembersOf(d),
                         k[1] \in TaskKinds,
                         NEW id \in DOMAIN accepted, BindsTask(id, k[2])
                  PROVE  DeliveryOf(accepted[id].rec) \in wk[w].fenced \cup {d}
      BY <2>1, <2>4, <2>5 DEF RetiringOwns, OwnedBy
    <3>0. View(w)' = Seer(effects, moved, wk[w].dropped)
      BY <2>1, <2>4, ViewIs
    <3>1. CASE OtherMembers(w, d, t) = {}
      <4>1. View(w)' = View(w)
        BY <2>2, <3>0, <3>1, ViewIs
      <4>2. k \in OwnedBy(w, d)
        BY <4>1 DEF OwnedBy
      <4>3. k[2] = t
        BY <2>8, <4>2
      <4>. QED
        BY <1>0, <3>1, <4>3, LastInTask
    <3>2. CASE OtherMembers(w, d, t) # {}
      <4>1. OneSource(moved)
        <5>1. \A m, n \in wk[w].moved : m[1] = n[1] => m = n
          BY <1>0 DEF SourcesRemain
        <5>2. \A m \in moved : m[1] \in keys => m = <<m[1], h>>
          BY <2>2 DEF moved
        <5>. QED
          BY <2>3, <5>1, <5>2 DEF OneSource
      <4>2. /\ k \in DOMAIN effects \ wk[w].dropped
            /\ (\A m \in moved : m[1] # k) => View(w)'[k].src = effects[k].src
            /\ \A m \in moved : m[1] = k => View(w)'[k].src = m[2]
        <5>1. SeerOf(View(w)', effects, moved, wk[w].dropped)
          BY <3>0, <4>1, SeerRows
        <5>. QED
          BY <5>1 DEF SeerOf
      <4>3. k \in DOMAIN View(w)
        BY <4>2, ViewSource
      <4>4. k \notin keys
        <5>1. k \in keys => View(w)'[k].src = h
          BY <2>3, <4>2
        <5>. QED
          BY <2>9, <5>1
      <4>5. View(w)'[k].src = View(w)[k].src
        <5>1. CASE k \in MovedKeys(w)
          <6>1. PICK m \in wk[w].moved : m[1] = k
            BY <5>1 DEF MovedKeys
          <6>. QED
            BY <2>3, <4>2, <4>4, <6>1, ViewSource
        <5>2. CASE k \notin MovedKeys(w)
          <6>1. \A m \in moved : m[1] # k
            BY <2>3, <4>4, <5>2 DEF MovedKeys
          <6>. QED
            BY <4>2, <4>3, <5>2, <6>1, ViewSource
        <5>. QED
          BY <5>1, <5>2
      <4>6. k \in OwnedBy(w, d)
        BY <4>3, <4>5 DEF OwnedBy
      <4>. QED
        BY <2>2, <2>8, <3>2, <4>4, <4>6
    <3>. QED
      BY <3>1, <3>2
  <2>13. \A f \in wk'[w].batch :
           f \in fences \/ (f \in DOMAIN anchors
                              /\ anchors[f].at + DeliveryTTL <= wk'[w].at)
    BY <1>0, <2>4 DEF PlannedStillDue
  <2>14. \A q \in Procs \ {w} : holds'[q] = holds[q]
    BY <1>0, <2>1, LockSteps
  <2>. QED
    BY <2>1, <2>4, <2>6, <2>7, <2>10, <2>11, <2>12, <2>13, <2>14,
       QuietIterationRows
<1>. QED
  BY <1>1, <1>2


\* Deleting the effects the Delivery owns: a Task's rows go only with the last
\* Delivery in the Task.
LEMMA DeleteEffectsRows ==
  ASSUME Inductive, RowsInductive, NEW w \in Workers, DeleteEffects(w)
  PROVE  RowsInductive'
<1>. DEFINE d == Retiring(w)
            owned == OwnedBy(w, d)
            moved == {m \in wk[w].moved : m[1] \notin owned}
            dropped == wk[w].dropped \cup owned
<1>0. /\ w \in Procs /\ w \notin Conns /\ wk = [v \in Workers |-> wk[v]]
      /\ wk[w] \in RetentionType /\ wk[w].pc = "delete_effects"
      /\ DueStill(w) /\ MovedOwned(w) /\ DroppedOwned(w) /\ TaskLocked(w)
      /\ RetiringOwns(w) /\ PlannedStillDue /\ SourcesRemain(w) /\ Destroying(w)
  BY ProcsAssumption DEF Procs, Inductive, TypeOK, ProcessesOK, RetentionOK,
                         RowsInductive, DeleteEffects, Destroying, DestroyingPCs
<1>1. /\ UNCHANGED <<tables, adm, now, holds>>
      /\ wk' = [wk EXCEPT ![w] = [wk[w] EXCEPT !.pc = "delete_markers",
                                               !.dropped = dropped,
                                               !.moved = moved]]
  BY DEF DeleteEffects, Work, WkUnchanged
<1>2. /\ \A m \in moved : m \in wk[w].moved /\ m[1] \notin owned
      /\ \A m \in wk[w].moved : m[1] \notin owned => m \in moved
      /\ \A k : k \in dropped <=> k \in wk[w].dropped \/ k \in owned
  OBVIOUS
<1>. HIDE DEF moved, dropped
<1>3. /\ wk'[w].moved = moved /\ wk'[w].pc = "delete_markers"
      /\ wk'[w].dropped = dropped /\ wk'[w].at = wk[w].at
      /\ wk'[w].fenced = wk[w].fenced /\ wk'[w].batch = wk[w].batch
      /\ \A v \in Workers \ {w} : wk'[v] = wk[v]
  BY <1>0, <1>1 DEF RetentionType
<1>4. /\ Retiring(w)' = d /\ MembersOf(d)' = MembersOf(d)
      /\ Doomed(w) = wk[w].fenced /\ Doomed(w)' = wk[w].fenced \cup {d}
      /\ Emptied(w)' /\ Destroying(w)'
      /\ \A id, u : BindsTask(id, u)' <=> BindsTask(id, u)
  BY <1>0, <1>1, <1>3 DEF Retiring, MembersOf, Doomed, Emptied, BindsTask,
                          Destroying, DestroyingPCs
<1>5. DueStill(w)'
  BY <1>0, <1>1, <1>3 DEF DueStill
<1>6. MovedOwned(w)'
  BY <1>0, <1>1, <1>2, <1>3, <1>4 DEF MovedOwned
<1>7. DroppedOwned(w)'
  <2>. SUFFICES ASSUME NEW k \in dropped
                PROVE  /\ k \in DOMAIN effects
                       /\ k[1] \notin TaskKinds =>
                            DeliveryOf(accepted[effects[k].src].rec)
                              \in wk[w].fenced \cup {d}
                       /\ k[1] \in TaskKinds =>
                            /\ TaskLock(k[2]) \in holds[w]
                            /\ \A id \in DOMAIN accepted :
                                 BindsTask(id, k[2]) =>
                                   DeliveryOf(accepted[id].rec)
                                     \in wk[w].fenced \cup {d}
    BY <1>1, <1>3, <1>4 DEF DroppedOwned
  <2>1. CASE k \in wk[w].dropped
    BY <1>0, <1>4, <2>1 DEF DroppedOwned
  <2>2. CASE k \in owned
    <3>1. /\ k \in DOMAIN View(w) /\ View(w)[k].src \in MembersOf(d)
          /\ k \in DOMAIN effects
      BY <2>2, ViewSource DEF OwnedBy
    <3>2. ASSUME k[1] \notin TaskKinds
          PROVE  DeliveryOf(accepted[effects[k].src].rec) = d
      <4>1. k \notin MovedKeys(w)
        BY <1>0, <3>2 DEF MovedOwned, MovedKeys
      <4>. QED
        BY <3>1, <4>1, ViewSource DEF MembersOf
    <3>3. k[1] \in TaskKinds => TaskLock(k[2]) \in holds[w]
      BY <1>0, <2>2, OwnedTaskLocked
    <3>4. k[1] \in TaskKinds =>
            \A id \in DOMAIN accepted :
              BindsTask(id, k[2]) =>
                DeliveryOf(accepted[id].rec) \in wk[w].fenced \cup {d}
      BY <1>0, <2>2 DEF RetiringOwns
    <3>. QED
      BY <3>1, <3>2, <3>3, <3>4
  <2>. QED
    BY <1>2, <2>1, <2>2
<1>8. TaskLocked(w)'
  BY <1>0, <1>1, <1>3, <1>4 DEF TaskLocked
<1>9. RetiringOwns(w)'
  <2>. SUFFICES ASSUME NEW k \in DOMAIN View(w)',
                       View(w)'[k].src \in MembersOf(d)
                PROVE  FALSE
    BY <1>3, <1>4 DEF RetiringOwns, OwnedBy
  <2>1. OneSource(moved)
    BY <1>0, <1>2 DEF OneSource, SourcesRemain
  <2>2. View(w)' = Seer(effects, moved, dropped)
    BY <1>1, <1>3, ViewIs
  <2>3. SeerOf(View(w)', effects, moved, dropped)
    BY <2>1, <2>2, SeerRows
  <2>4. /\ k \in DOMAIN View(w) /\ k \notin owned
        /\ (\A m \in moved : m[1] # k) => View(w)'[k].src = effects[k].src
        /\ \A m \in moved : m[1] = k => View(w)'[k].src = m[2]
    BY <1>2, <2>3, ViewSource DEF SeerOf
  <2>5. View(w)'[k].src = View(w)[k].src
    <3>1. CASE k \in MovedKeys(w)
      <4>1. PICK m \in wk[w].moved : m[1] = k
        BY <3>1 DEF MovedKeys
      <4>. QED
        BY <1>2, <2>4, <4>1, ViewSource
    <3>2. CASE k \notin MovedKeys(w)
      <4>1. \A m \in moved : m[1] # k
        BY <1>2, <3>2 DEF MovedKeys
      <4>. QED
        BY <2>4, <3>2, <4>1, ViewSource
    <3>. QED
      BY <3>1, <3>2
  <2>. QED
    BY <2>4, <2>5 DEF OwnedBy
<1>10. \A f \in wk'[w].batch :
         f \in fences \/ (f \in DOMAIN anchors
                            /\ anchors[f].at + DeliveryTTL <= wk'[w].at)
  BY <1>0, <1>3 DEF PlannedStillDue
<1>11. \A q \in Procs \ {w} : holds'[q] = holds[q]
  BY <1>0, <1>1, LockSteps
<1>. QED
  BY <1>1, <1>3, <1>5, <1>6, <1>7, <1>8, <1>9, <1>10, <1>11, QuietIterationRows

\* Deleting the Delivery's records: it is due, and leaves the batch.
LEMMA DeleteRecordsRows ==
  ASSUME Inductive, RowsInductive, NEW w \in Workers, DeleteRecords(w)
  PROVE  RowsInductive'
<1>. DEFINE d == Retiring(w)
            batch == wk[w].batch \ {d}
            gone == wk[w].gone \cup MembersOf(d)
            fenced == wk[w].fenced \cup {d}
<1>0. /\ w \in Procs /\ w \notin Conns /\ wk = [v \in Workers |-> wk[v]]
      /\ wk[w] \in RetentionType /\ wk[w].pc = "delete_records"
      /\ DueStill(w) /\ PlannedStillDue /\ RetiringLocked(w) /\ Destroying(w)
      /\ wk[w].batch # {} /\ wk[w].batch \subseteq Deliveries
  BY ProcsAssumption DEF Procs, Inductive, TypeOK, ProcessesOK, RetentionOK,
                         RetentionType, RowsInductive, DeleteRecords,
                         Destroying, DestroyingPCs
<1>1. CASE OwnedBy(w, d) # {}
  BY <1>1, GiveUpRows DEF DeleteRecords, GiveUp, Work, WkUnchanged
<1>2. CASE OwnedBy(w, d) = {}
  <2>1. /\ UNCHANGED <<tables, adm, now, holds>>
        /\ wk' = [wk EXCEPT ![w] = [wk[w] EXCEPT !.pc = "delivery_lock",
                                                 !.batch = batch,
                                                 !.gone = gone,
                                                 !.fenced = fenced]]
    BY <1>2 DEF DeleteRecords, Work, WkUnchanged
  <2>. HIDE DEF batch, gone, fenced
  <2>2. /\ wk'[w].moved = wk[w].moved /\ wk'[w].pc = "delivery_lock"
        /\ wk'[w].dropped = wk[w].dropped /\ wk'[w].at = wk[w].at
        /\ wk'[w].fenced = fenced /\ wk'[w].batch = batch
        /\ \A v \in Workers \ {w} : wk'[v] = wk[v]
    BY <1>0, <2>1 DEF RetentionType
  <2>3. d \in wk[w].batch
    <3>1. wk[w].batch \subseteq Nat
      BY <1>0, DeliveriesNat
    <3>. QED
      BY <1>0, <3>1, MinOfIn DEF Retiring
  <2>4. anchors[d].at + DeliveryTTL <= wk[w].at
    BY <1>0, <2>3 DEF PlannedStillDue, RetiringLocked
  <2>5. DueStill(w)'
    BY <1>0, <2>1, <2>2, <2>4 DEF DueStill, batch, fenced
  <2>6. Doomed(w) \subseteq Doomed(w)'
    BY <1>0, <2>2 DEF Doomed, Emptied, fenced
  <2>7. TaskLocked(w)' /\ RetiringOwns(w)'
    BY <2>2 DEF TaskLocked, RetiringOwns, Destroying, DestroyingPCs, Emptied
  <2>8. \A f \in wk'[w].batch :
          f \in fences \/ (f \in DOMAIN anchors
                             /\ anchors[f].at + DeliveryTTL <= wk'[w].at)
    BY <1>0, <2>2 DEF PlannedStillDue, batch
  <2>9. \A q \in Procs \ {w} : holds'[q] = holds[q]
    BY <1>0, <2>1, LockSteps
  <2>. QED
    BY <2>1, <2>2, <2>5, <2>6, <2>7, <2>8, <2>9, ContinueRows
<1>. QED
  BY <1>1, <1>2

-------------------------------------------------------------------------------
(* The COMMITs of an iteration *)

\* The scrub changes no row that the invariant speaks of.
LEMMA CommitExpiryRows ==
  ASSUME Inductive, RowsInductive, NEW w \in Workers, CommitExpiry(w)
  PROVE  RowsInductive'
<1>0. /\ w \in Procs /\ UNCHANGED <<effects, anchors, fences, adm, now>>
      /\ DueStill(w) /\ wk[w].at \in Nat /\ now \in Nat
  BY DEF Procs, CommitExpiry, WkUnchanged, RowsInductive, Inductive, TypeOK,
         ProcessesOK, RetentionOK, RetentionType
<1>1. /\ DOMAIN accepted' = DOMAIN accepted
      /\ \A id \in DOMAIN accepted : accepted'[id].rec = accepted[id].rec
  <2>1. \A id \in DOMAIN accepted :
          accepted[id] \in [rec : Records, at : 0..MaxTime, raw : BOOLEAN]
    BY DEF Inductive, TypeOK, TablesOK, TableType
  <2>2. /\ DOMAIN accepted' = DOMAIN accepted
        /\ \A id \in DOMAIN accepted :
             \/ accepted'[id] = accepted[id]
             \/ accepted'[id] = [accepted[id] EXCEPT !.raw = FALSE]
    BY DEF CommitExpiry
  <2>. QED
    BY <2>1, <2>2
<1>2. /\ wk'[w].pc \in {"sleep", "plan_deletion"} /\ wk'[w].moved = {}
      /\ wk'[w].dropped = {} /\ wk'[w].fenced = {} /\ wk'[w].batch = {}
      /\ wk'[w].at = 0 \/ wk'[w].at = wk[w].at
      /\ \A v \in Workers \ {w} : wk'[v] = wk[v]
  BY DEF CommitExpiry, Asleep, Inductive, TypeOK, ProcessesOK
<1>3. \A q \in Procs \ {w} : holds'[q] = holds[q]
  BY <1>0, LockSteps DEF CommitExpiry
<1>4. wk'[w].at <= now
  BY <1>0, <1>2 DEF DueStill
<1>. QED
  BY <1>0, <1>1, <1>2, <1>3, <1>4, FreshIteration DEF DestroyingPCs


\* What the COMMIT of an iteration leaves of projection_effects: the rows it did
\* not drop, with their payloads, and with their sources unless they are a Task's.
LEMMA CommitLeaves ==
  ASSUME Inductive, RowsInductive, NEW w \in Workers, CommitDeletion(w)
  PROVE  /\ DOMAIN effects' = DOMAIN effects \ wk[w].dropped
         /\ \A k \in DOMAIN effects' :
              /\ effects'[k].payload = effects[k].payload
              /\ effects'[k].src \in DOMAIN accepted'
              /\ Owns(effects'[k].src, k)
              /\ k[1] \notin TaskKinds => effects'[k].src = effects[k].src
         /\ \A id \in DOMAIN accepted' :
              id \in DOMAIN accepted /\ accepted'[id] = accepted[id]
                /\ DeliveryOf(accepted[id].rec) \notin wk[w].fenced
         /\ Doomed(w) = wk[w].fenced
<1>0. CommitRemoves(w)
  BY CommitRemovesDeliveries
<1>1. /\ effects' = View(w) /\ DOMAIN View(w) = DOMAIN effects \ wk[w].dropped
      /\ \A k \in DOMAIN View(w) : View(w)[k].src \in DOMAIN accepted \ wk[w].gone
  BY <1>0, ViewSource DEF CommitRemoves
<1>2. \A k \in DOMAIN View(w) : /\ Owns(View(w)[k].src, k)
                                /\ View(w)[k].payload = effects[k].payload
  BY ViewOwns
<1>3. \A id \in DOMAIN accepted' :
        id \in DOMAIN accepted /\ accepted'[id] = accepted[id]
          /\ DeliveryOf(accepted[id].rec) \notin wk[w].fenced
  BY <1>0 DEF CommitRemoves
<1>4. DOMAIN accepted \ wk[w].gone \subseteq DOMAIN accepted'
  BY <1>0 DEF CommitRemoves, Inductive, GoneIsFenced
<1>5. ASSUME NEW k \in DOMAIN View(w), k[1] \notin TaskKinds
      PROVE  View(w)[k].src = effects[k].src
  <2>1. k \notin MovedKeys(w)
    BY <1>5 DEF RowsInductive, MovedOwned, MovedKeys
  <2>. QED
    BY <2>1, ViewSource
<1>6. Doomed(w) = wk[w].fenced
  BY DEF CommitDeletion, Doomed, Emptied
<1>. QED
  BY <1>1, <1>2, <1>3, <1>4, <1>5, <1>6

\* An admission has applied no effect whose row the iteration drops, if a lock
\* protects the row: the lock is either's.
LEMMA DroppedUnapplied ==
  ASSUME Inductive, RowsInductive, NEW w \in Workers, CommitDeletion(w),
         NEW c \in Conns, adm[c].pc \in {"apply", "compare"},
         NEW k, Mentions(adm[c].rec, k), Guarded(k)
  PROVE  k \notin wk[w].dropped
<1>. SUFFICES ASSUME k \in wk[w].dropped PROVE FALSE
  OBVIOUS
<1>0. /\ w \in Procs /\ c \in Procs /\ w # c
      /\ DroppedOwned(w) /\ BindingLocked(c) /\ FencePassed(c)
      /\ RetiringLocked(w) /\ LockExclusion
      /\ wk[w].fenced \subseteq Deliveries
  BY ProcsAssumption DEF Procs, Inductive, RowsInductive, TypeOK, ProcessesOK,
                         RetentionOK, RetentionType
<1>1. PICK r \in Records : r = adm[c].rec
  BY DEF Inductive, TypeOK, ProcessesOK, AdmissionOK, AdmissionType
<1>2. CASE k[1] \in TaskKinds
  <2>1. IsBinding(r) /\ k[2] = r.attrs.task_id
    BY <1>1, <1>2, MentionsBinding
  <2>2. TaskLock(k[2]) \in holds[c] /\ TaskLock(k[2]) \in holds[w]
    BY <1>0, <1>1, <1>2, <2>1 DEF BindingLocked, DroppedOwned
  <2>. QED
    BY <1>0, <2>2 DEF LockExclusion
<1>3. CASE k[1] \notin TaskKinds
  <2>1. DeliveryOf(r) \in wk[w].fenced
    BY <1>1, <1>3, DroppedLocal, CommitLeaves DEF Guarded
  <2>2. r.profile = 2
    BY <1>0, <2>1, DeliveryOfRecord
  <2>3. DeliveryLock(DeliveryOf(r)) \in holds[c]
    BY <1>0, <1>1, <2>2 DEF FencePassed, PastFence
  <2>. QED
    BY <1>0, <2>1, <2>3 DEF RetiringLocked, LockExclusion
<1>. QED
  BY <1>2, <1>3

\* What a record that stays says was not dropped, if a lock protects it.
LEMMA DroppedUnsaid ==
  ASSUME Inductive, RowsInductive, NEW w \in Workers, CommitDeletion(w),
         NEW id \in DOMAIN accepted',
         NEW k, Mentions(accepted[id].rec, k), Guarded(k)
  PROVE  k \notin wk[w].dropped
<1>. SUFFICES ASSUME k \in wk[w].dropped PROVE FALSE
  OBVIOUS
<1>0. /\ id \in DOMAIN accepted
      /\ DeliveryOf(accepted[id].rec) \notin Doomed(w)
      /\ DroppedOwned(w)
  BY CommitLeaves DEF RowsInductive
<1>1. PICK r \in Records : r = accepted[id].rec
  BY <1>0 DEF Inductive, TypeOK, TablesOK, TableType
<1>2. CASE k[1] \in TaskKinds
  <2>1. IsBinding(r) /\ k[2] = r.attrs.task_id
    BY <1>1, <1>2, MentionsBinding
  <2>. QED
    BY <1>0, <1>1, <1>2, <2>1 DEF DroppedOwned, BindsTask
<1>3. CASE k[1] \notin TaskKinds
  BY <1>0, <1>1, <1>3, DroppedLocal DEF Guarded
<1>. QED
  BY <1>2, <1>3


\* What another iteration knows is still so: it has the locks of its own
\* Deliveries and Tasks.
LEMMA CommitDeletionOther ==
  ASSUME Inductive, RowsInductive, NEW w \in Workers, CommitDeletion(w),
         NEW v \in Workers \ {w}, wk'[v] = wk[v], holds'[v] = holds[v]
  PROVE  /\ DueStill(v)' /\ MovedOwned(v)' /\ DroppedOwned(v)'
         /\ TaskLocked(v)' /\ RetiringOwns(v)'
<1>a. /\ DOMAIN effects' = DOMAIN effects \ wk[w].dropped
      /\ \A k \in DOMAIN effects' :
           /\ effects'[k].payload = effects[k].payload
           /\ effects'[k].src \in DOMAIN accepted'
           /\ Owns(effects'[k].src, k)
           /\ k[1] \notin TaskKinds => effects'[k].src = effects[k].src
      /\ \A id \in DOMAIN accepted' :
           id \in DOMAIN accepted /\ accepted'[id] = accepted[id]
             /\ DeliveryOf(accepted[id].rec) \notin wk[w].fenced
      /\ Doomed(w) = wk[w].fenced
  BY CommitLeaves
<1>0. /\ v \in Procs /\ w \in Procs /\ v # w /\ UNCHANGED now
      /\ DueStill(v) /\ MovedOwned(v) /\ DroppedOwned(v) /\ TaskLocked(v)
      /\ RetiringOwns(v) /\ RetiringLocked(v) /\ SourcesRemain(v)
      /\ MovedOwned(w) /\ DroppedOwned(w) /\ RetiringLocked(w)
      /\ LockExclusion /\ WorkersApart /\ CommitRemoves(w)
  BY CommitRemovesDeliveries
  DEF Procs, Inductive, RowsInductive, CommitDeletion, WkUnchanged
<1>1. /\ Doomed(v)' = Doomed(v) /\ Retiring(v)' = Retiring(v)
      /\ (Destroying(v)' <=> Destroying(v)) /\ (Emptied(v)' <=> Emptied(v))
      /\ MovedKeys(v)' = MovedKeys(v)
      /\ \A id \in DOMAIN accepted' : \A t : BindsTask(id, t)' <=> BindsTask(id, t)
      /\ \A d : MembersOf(d)' \subseteq MembersOf(d)
  BY <1>a DEF Doomed, Retiring, Destroying, Emptied, MovedKeys, BindsTask,
              MembersOf
<1>2. /\ \A d \in Doomed(v) : d \notin wk[w].fenced
      /\ \A d \in wk[v].fenced : d \notin wk[w].fenced
  <2>1. \A d \in Doomed(v) : DeliveryLock(d) \in holds[v]
    BY <1>0 DEF Doomed, RetiringLocked, Emptied, Destroying, DestroyingPCs
  <2>2. \A d \in wk[w].fenced : DeliveryLock(d) \in holds[w]
    BY <1>0 DEF RetiringLocked
  <2>3. wk[v].fenced \subseteq Doomed(v)
    BY DEF Doomed
  <2>. QED
    BY <1>0, <2>1, <2>2, <2>3 DEF LockExclusion
<1>3. DueStill(v)'
  <2>1. \A d \in wk[v].fenced : anchors'[d] = anchors[d]
    BY <1>0, <1>2 DEF CommitRemoves, RetiringLocked
  <2>. QED
    BY <1>0, <2>1 DEF DueStill
<1>4. MovedOwned(v)'
  <2>1. ASSUME NEW m \in wk[v].moved
        PROVE  m[2] \in DOMAIN accepted'
    <3>1. m[2] \in DOMAIN accepted \ wk[w].gone
      BY <1>0 DEF SourcesRemain, WorkersApart, MovedTo
    <3>. QED
      BY <1>0, <3>1 DEF CommitRemoves, Inductive, GoneIsFenced
  <2>. QED
    BY <1>0, <1>1, <2>1 DEF MovedOwned
<1>5. ASSUME NEW k \in wk[v].dropped
      PROVE  k \notin wk[w].dropped
  <2>. SUFFICES ASSUME k \in wk[w].dropped PROVE FALSE
    OBVIOUS
  <2>1. CASE k[1] \in TaskKinds
    BY <1>0, <2>1 DEF DroppedOwned, LockExclusion
  <2>2. CASE k[1] \notin TaskKinds
    BY <1>a, <1>0, <1>2, <2>2 DEF DroppedOwned
  <2>. QED
    BY <2>1, <2>2
<1>6. DroppedOwned(v)'
  <2>. SUFFICES ASSUME NEW k \in wk[v].dropped
                PROVE  /\ k \in DOMAIN effects'
                       /\ k[1] \notin TaskKinds =>
                            DeliveryOf(accepted'[effects'[k].src].rec) \in Doomed(v)
                       /\ k[1] \in TaskKinds =>
                            /\ TaskLock(k[2]) \in holds[v]
                            /\ \A id \in DOMAIN accepted' :
                                 BindsTask(id, k[2]) =>
                                   DeliveryOf(accepted[id].rec) \in Doomed(v)
    BY <1>a, <1>1 DEF DroppedOwned
  <2>1. k \in DOMAIN effects'
    BY <1>a, <1>0, <1>5 DEF DroppedOwned
  <2>2. k[1] \notin TaskKinds =>
          DeliveryOf(accepted'[effects'[k].src].rec) \in Doomed(v)
    BY <1>a, <1>0, <2>1 DEF DroppedOwned
  <2>3. k[1] \in TaskKinds =>
          /\ TaskLock(k[2]) \in holds[v]
          /\ \A id \in DOMAIN accepted' :
               BindsTask(id, k[2]) => DeliveryOf(accepted[id].rec) \in Doomed(v)
    BY <1>a, <1>0 DEF DroppedOwned
  <2>. QED
    BY <2>1, <2>2, <2>3
<1>7. TaskLocked(v)'
  <2>1. \A id \in MembersOf(Retiring(v))' :
          id \in MembersOf(Retiring(v)) /\ accepted'[id] = accepted[id]
    BY <1>a, <1>1 DEF MembersOf
  <2>. QED
    BY <1>0, <1>1, <2>1 DEF TaskLocked
<1>8. ASSUME wk[v].pc = "delete_effects" \/ Emptied(v),
             NEW k \in OwnedBy(v, Retiring(v))'
      PROVE  k \in OwnedBy(v, Retiring(v))
  <2>0. Destroying(v) /\ wk[v].pc # "task_lock"
    BY <1>8 DEF Emptied, Destroying, DestroyingPCs
  <2>1. /\ k \in DOMAIN View(v)'
        /\ View(v)'[k].src \in MembersOf(Retiring(v))
    BY <1>1 DEF OwnedBy
  <2>2. OneSource(wk[v].moved)
    BY <1>0 DEF OneSource, SourcesRemain
  <2>3. View(v)' = Seer(effects', wk[v].moved, wk[v].dropped)
    BY ViewIs
  <2>4. SeerOf(View(v)', effects', wk[v].moved, wk[v].dropped)
    BY <2>2, <2>3, SeerRows
  <2>5. /\ k \in DOMAIN effects' \ wk[v].dropped
        /\ (\A m \in wk[v].moved : m[1] # k) => View(v)'[k].src = effects'[k].src
        /\ \A m \in wk[v].moved : m[1] = k => View(v)'[k].src = m[2]
    BY <2>1, <2>4 DEF SeerOf
  <2>6. k \in DOMAIN View(v)
    BY <1>a, <2>5, ViewSource
  <2>7. CASE k \in MovedKeys(v)
    <3>1. PICK m \in wk[v].moved : m[1] = k
      BY <2>7 DEF MovedKeys
    <3>. QED
      BY <2>1, <2>5, <2>6, <3>1, ViewSource DEF OwnedBy
  <2>8. CASE k \notin MovedKeys(v)
    <3>1. View(v)'[k].src = effects'[k].src /\ View(v)[k].src = effects[k].src
      BY <2>5, <2>6, <2>8, ViewSource DEF MovedKeys
    <3>2. effects'[k].src = effects[k].src
      <4>1. CASE k \in MovedKeys(w)
        <5>1. k[1] \in TaskKinds /\ TaskLock(k[2]) \in holds[w]
          BY <1>0, <4>1 DEF MovedOwned, MovedKeys
        <5>2. BindsTask(effects'[k].src, k[2])
          BY <1>a, <2>5, <5>1 DEF Owns
        <5>3. TaskLock(k[2]) \in holds[v]
          BY <1>0, <2>0, <2>1, <3>1, <5>2 DEF TaskLocked, BindsTask
        <5>. QED
          BY <1>0, <5>1, <5>3 DEF LockExclusion
      <4>2. CASE k \notin MovedKeys(w)
        BY <1>0, <2>5, <4>2, ViewSource DEF CommitRemoves
      <4>. QED
        BY <4>1, <4>2
    <3>. QED
      BY <2>1, <2>6, <3>1, <3>2 DEF OwnedBy
  <2>. QED
    BY <2>7, <2>8
<1>9. RetiringOwns(v)'
  <2>1. Emptied(v) => OwnedBy(v, Retiring(v))' = {}
    BY <1>0, <1>8 DEF RetiringOwns
  <2>2. ASSUME wk[v].pc = "delete_effects", NEW k \in OwnedBy(v, Retiring(v))',
               NEW id \in DOMAIN accepted', k[1] \in TaskKinds,
               BindsTask(id, k[2])
        PROVE  DeliveryOf(accepted'[id].rec) \in wk[v].fenced \cup {Retiring(v)}
    BY <1>a, <1>0, <1>8, <2>2 DEF RetiringOwns
  <2>. QED
    BY <1>1, <2>1, <2>2 DEF RetiringOwns
<1>. QED
  BY <1>3, <1>4, <1>6, <1>7, <1>9

\* COMMIT of an iteration: what anybody else relies on is protected by a lock
\* that the iteration cannot have had.
LEMMA CommitDeletionRows ==
  ASSUME Inductive, RowsInductive, NEW w \in Workers, CommitDeletion(w)
  PROVE  RowsInductive'
<1>a. /\ DOMAIN effects' = DOMAIN effects \ wk[w].dropped
      /\ \A k \in DOMAIN effects' :
           /\ effects'[k].payload = effects[k].payload
           /\ effects'[k].src \in DOMAIN accepted'
           /\ Owns(effects'[k].src, k)
           /\ k[1] \notin TaskKinds => effects'[k].src = effects[k].src
      /\ \A id \in DOMAIN accepted' :
           id \in DOMAIN accepted /\ accepted'[id] = accepted[id]
             /\ DeliveryOf(accepted[id].rec) \notin wk[w].fenced
      /\ Doomed(w) = wk[w].fenced
  BY CommitLeaves
<1>0. /\ w \in Procs /\ Conns \subseteq Procs /\ Workers \subseteq Procs
      /\ w \notin Conns /\ UNCHANGED <<adm, now>> /\ CommitRemoves(w)
      /\ 0 <= now
  <2>1. CommitRemoves(w)
    BY CommitRemovesDeliveries
  <2>2. 0 <= now
    BY DEF Inductive, TypeOK
  <2>. QED
    BY <2>1, <2>2, ProcsAssumption DEF Procs, CommitDeletion, WkUnchanged
<1>1. /\ wk'[w].pc = "sleep" /\ wk'[w].moved = {} /\ wk'[w].at = 0
      /\ wk'[w].dropped = {} /\ wk'[w].fenced = {} /\ wk'[w].batch = {}
      /\ \A v \in Workers \ {w} : wk'[v] = wk[v]
  BY DEF CommitDeletion, Asleep, Inductive, TypeOK, ProcessesOK
<1>2. \A q \in Procs \ {w} : holds'[q] = holds[q]
  BY <1>0, LockSteps DEF CommitDeletion
<1>3. ASSUME NEW c \in Conns
      PROVE  WrittenOwn(c)' /\ BindingLocked(c)' /\ AppliedHolds(c)'
  <2>0. WrittenOwn(c) /\ BindingLocked(c) /\ AppliedHolds(c) /\ adm'[c] = adm[c]
    BY <1>0 DEF RowsInductive
  <2>1. /\ Written(c)' = Written(c)
        /\ \A k : PayloadWritten(c, k)' = PayloadWritten(c, k)
    BY <2>0, SameWritten
  <2>2. WrittenOwn(c)'
    BY <1>a, <2>0, <2>1 DEF WrittenOwn
  <2>3. BindingLocked(c)'
    BY <1>0, <1>2, <2>0 DEF BindingLocked
  <2>4. ASSUME NEW k, Sees(c, k), k \notin wk[w].dropped
        PROVE  Sees(c, k)' /\ Seen(c, k)' = Seen(c, k)
    BY <1>a, <2>1, <2>4 DEF Sees, Seen
  <2>5. AppliedHolds(c)'
    <3>1. PICK r : r = adm[c].rec
      OBVIOUS
    <3>. SUFFICES ASSUME adm[c].pc \in {"apply", "compare"},
                         NEW i \in DOMAIN Project(r), i < adm[c].idx,
                         Guarded(EffectKey(Project(r)[i]))
                  PROVE  /\ Sees(c, EffectKey(Project(r)[i]))'
                         /\ Agrees(Project(r)[i],
                                   Seen(c, EffectKey(Project(r)[i])))'
      BY <2>0, <3>1, Zenon DEF AppliedHolds
    <3>2. /\ Sees(c, EffectKey(Project(r)[i]))
          /\ Agrees(Project(r)[i], Seen(c, EffectKey(Project(r)[i])))
      BY <2>0, <3>1 DEF AppliedHolds
    <3>3. Mentions(adm[c].rec, EffectKey(Project(r)[i]))
      BY <3>1 DEF Mentions, EffectsOf
    <3>4. EffectKey(Project(r)[i]) \notin wk[w].dropped
      BY <3>3, DroppedUnapplied
    <3>. QED
      BY <2>4, <3>2, <3>4
  <2>. QED
    BY <2>2, <2>3, <2>5
<1>4. WrittenApart'
  <2>1. \A e \in Conns : Written(e)' = Written(e)
    BY <1>0, SameWritten
  <2>. QED
    BY <2>1 DEF RowsInductive, WrittenApart
<1>5. ASSUME NEW v \in Workers
      PROVE  /\ DueStill(v)' /\ MovedOwned(v)' /\ DroppedOwned(v)'
             /\ TaskLocked(v)' /\ RetiringOwns(v)'
  <2>1. CASE v = w
    BY <1>0, <1>1, <2>1
    DEF DueStill, MovedOwned, DroppedOwned, TaskLocked, RetiringOwns,
        Destroying, DestroyingPCs, Emptied
  <2>2. CASE v # w
    BY <1>0, <1>1, <1>2, <2>2, CommitDeletionOther
  <2>. QED
    BY <2>1, <2>2
<1>6. SourceOwns'
  <2>. SUFFICES ASSUME NEW k \in DOMAIN effects'
                PROVE  Owns(effects[k].src, k)'
    BY DEF SourceOwns
  <2>1. PICK id : id = effects'[k].src
    OBVIOUS
  <2>2. id \in DOMAIN accepted' /\ Owns(id, k) /\ accepted'[id] = accepted[id]
    BY <1>a, <2>1
  <2>. QED
    BY <2>1, <2>2 DEF Owns, BindsTask
<1>7. GuardedComplete'
  <2>. SUFFICES ASSUME NEW id \in DOMAIN accepted',
                       NEW e \in EffectsOf(accepted[id].rec),
                       Guarded(EffectKey(e))
                PROVE  Holds(e)'
    BY <1>a DEF GuardedComplete
  <2>1. Holds(e)
    BY <1>a DEF RowsInductive, GuardedComplete
  <2>2. EffectKey(e) \notin wk[w].dropped
    BY DroppedUnsaid DEF Mentions
  <2>. QED
    BY <1>a, <2>1, <2>2 DEF Holds
<1>8. PlannedStillDue'
  <2>. SUFFICES ASSUME NEW v \in Workers, NEW d \in wk'[v].batch
                PROVE  d \in fences' \/ (d \in DOMAIN anchors'
                                  /\ anchors'[d].at + DeliveryTTL <= wk'[v].at)
    BY DEF PlannedStillDue
  <2>1. wk'[v] = wk[v]
    BY <1>1
  <2>2. d \in fences \/ (d \in DOMAIN anchors
                           /\ anchors[d].at + DeliveryTTL <= wk[v].at)
    BY <2>1 DEF RowsInductive, PlannedStillDue
  <2>. QED
    BY <1>0, <2>1, <2>2 DEF CommitRemoves
<1>. QED
  BY <1>3, <1>4, <1>5, <1>6, <1>7, <1>8 DEF RowsInductive


-------------------------------------------------------------------------------
(* The invariant *)

\* The invariant holds in the empty database.
LEMMA RowsInit == Init => RowsInductive
<1>. SUFFICES ASSUME Init
              PROVE  RowsInductive
  OBVIOUS
<1>1. /\ \A c \in Conns : adm[c].pc = "idle" /\ adm[c].wrote = {} /\ adm[c].idx = 1
      /\ \A w \in Workers :
           /\ wk[w].pc = "sleep" /\ wk[w].moved = {} /\ wk[w].dropped = {}
           /\ wk[w].fenced = {} /\ wk[w].batch = {} /\ wk[w].at = 0
      /\ DOMAIN accepted = {} /\ DOMAIN effects = {} /\ now = 0
  BY DEF Init, Idle, Asleep, EmptyTable
<1>2. \A c \in Conns : Written(c) = {}
  BY <1>1 DEF Written
<1>3. WrittenApart /\ \A c \in Conns : WrittenOwn(c) /\ BindingLocked(c) /\ AppliedHolds(c)
  BY <1>1, <1>2 DEF WrittenApart, WrittenOwn, BindingLocked, AppliedHolds
<1>4. \A w \in Workers : DueStill(w) /\ MovedOwned(w) /\ DroppedOwned(w)
                           /\ TaskLocked(w) /\ RetiringOwns(w)
  BY <1>1 DEF DueStill, MovedOwned, DroppedOwned, TaskLocked, RetiringOwns,
              Destroying, DestroyingPCs, Emptied
<1>5. SourceOwns /\ GuardedComplete /\ PlannedStillDue
  BY <1>1 DEF SourceOwns, GuardedComplete, PlannedStillDue
<1>. QED
  BY <1>3, <1>4, <1>5 DEF RowsInductive

\* Every step of the system preserves it.
LEMMA RowsStep == Inductive /\ RowsInductive /\ [Next]_vars => RowsInductive'
<1>. SUFFICES ASSUME Inductive, RowsInductive, [Next]_vars
              PROVE  RowsInductive'
  OBVIOUS
<1>1. ASSUME NEW c \in Conns, NEW r \in Records, Receive(c, r)
      PROVE  RowsInductive'
  <2>1. /\ adm'[c].pc \in {"delivery_lock", "claim"} /\ adm'[c].rec = r
        /\ adm'[c].pc = "delivery_lock" <=> r.profile = 2
        /\ adm'[c].wrote = {} /\ adm'[c].idx = 1
        /\ \A e \in Conns \ {c} : adm'[e] = adm[e]
    BY <1>1 DEF Receive, Step, Idle, Inductive, TypeOK, ProcessesOK
  <2>2. \A q \in Procs \ {c} : holds'[q] = holds[q]
    BY <1>1, LockSteps DEF Receive, Procs
  <2>3. adm'[c].pc = "claim" => ~IsBinding(adm'[c].rec)
    BY <2>1 DEF IsBinding
  <2>. QED
    BY <1>1, <2>1, <2>2, <2>3, FreshAdmission DEF Receive, Step, AdmUnchanged
<1>2. ASSUME NEW c \in Conns, AdmissionStep(c)
      PROVE  RowsInductive'
  BY <1>2, QuietAdmissionStepRows, CommitAdmissionRows DEF AdmissionStep
<1>3. ASSUME NEW w \in Workers, Wake(w) \/ RetentionStep(w)
      PROVE  RowsInductive'
  BY <1>3, QuietRetentionRows, CheckRetiringRows, PreserveTaskRows,
     DeleteEffectsRows, DeleteRecordsRows, CommitExpiryRows, CommitDeletionRows
  DEF RetentionStep
<1>4. ASSUME NEW p \in Procs, Abort(p)
      PROVE  RowsInductive'
  <2>1. CASE p \in Conns
    BY <1>4, <2>1, FinishRows DEF Abort, Finish
  <2>2. CASE p \notin Conns
    BY <1>4, <2>2, GiveUpRows DEF Abort, Procs
  <2>. QED
    BY <2>1, <2>2
<1>5. ASSUME Tick \/ UNCHANGED vars
      PROVE  RowsInductive'
  <2>1. /\ UNCHANGED <<accepted, effects, anchors, fences, holds, adm, wk>>
        /\ now' = now \/ now' = now + 1
    BY <1>5 DEF Tick, vars
  <2>2. \A w \in Workers : wk[w].at \in Nat /\ now \in Nat
    BY DEF Inductive, TypeOK, ProcessesOK, RetentionOK, RetentionType
  <2>3. \A w \in Workers : DueStill(w)'
    BY <2>1, <2>2 DEF RowsInductive, DueStill
  <2>4. \A c \in Conns : WrittenOwn(c)' /\ BindingLocked(c)'
    BY <2>1 DEF RowsInductive, WrittenOwn, BindingLocked, Written
  <2>5. \A c \in Conns : \A k :
          /\ Written(c)' = Written(c)
          /\ (Sees(c, k)' <=> Sees(c, k)) /\ Seen(c, k)' = Seen(c, k)
    BY <2>1 DEF Sees, Seen, Written, PayloadWritten
  <2>6. \A c \in Conns : AppliedHolds(c)'
    BY <2>1, <2>5 DEF RowsInductive, AppliedHolds
  <2>7. WrittenApart'
    BY <2>5 DEF RowsInductive, WrittenApart
  <2>8. ASSUME NEW w \in Workers
        PROVE  MovedOwned(w)' /\ DroppedOwned(w)' /\ TaskLocked(w)' /\ RetiringOwns(w)'
    <3>1. MovedOwned(w)'
      BY <2>1 DEF RowsInductive, MovedOwned, BindsTask
    <3>2. DroppedOwned(w)'
      BY <2>1 DEF RowsInductive, DroppedOwned, BindsTask, Doomed, Emptied, Retiring
    <3>3. /\ OwnedBy(w, Retiring(w))' = OwnedBy(w, Retiring(w))
          /\ MembersOf(Retiring(w))' = MembersOf(Retiring(w))
      BY <2>1, SameView DEF OwnedBy, Retiring, MembersOf
    <3>4. TaskLocked(w)'
      BY <2>1, <3>3 DEF RowsInductive, TaskLocked, Destroying
    <3>5. RetiringOwns(w)'
      BY <2>1, <3>3 DEF RowsInductive, RetiringOwns, BindsTask, Emptied, Retiring
    <3>. QED
      BY <3>1, <3>2, <3>4, <3>5
  <2>9. SourceOwns' /\ GuardedComplete' /\ PlannedStillDue'
    BY <2>1 DEF RowsInductive, SourceOwns, Owns, BindsTask, GuardedComplete,
                Holds, PlannedStillDue
  <2>. QED
    BY <2>3, <2>4, <2>6, <2>7, <2>8, <2>9 DEF RowsInductive
<1>. QED
  BY <1>1, <1>2, <1>3, <1>4, <1>5 DEF Next, DeadlockVictim, Fault

\* RowsInductive is an invariant of the service: every effect row that one
\* Delivery or one Task mentions is protected by an advisory lock, and nobody
\* changes it without the lock.
THEOREM RowsInvariant == Spec => []RowsInductive
<1>1. Init => Inductive /\ RowsInductive
  BY InductiveInit, RowsInit
<1>2. Inductive /\ RowsInductive /\ [Next]_vars
        => Inductive' /\ RowsInductive'
  BY InductiveStep, RowsStep
<1>. QED
  BY <1>1, <1>2, PTL DEF Spec


-------------------------------------------------------------------------------
(* What follows *)

\* Only the three COMMITs change a table.
LEMMA OnlyCommitsChange ==
  ASSUME [Next]_vars,
         \A c \in Conns : ~CommitAdmission(c),
         \A w \in Workers : ~CommitExpiry(w) /\ ~CommitDeletion(w)
  PROVE  UNCHANGED tables
<1>1. ASSUME NEW c \in Conns, NEW r \in Records, Receive(c, r)
      PROVE  UNCHANGED tables
  BY <1>1 DEF Receive, Step
<1>2. ASSUME NEW c \in Conns, AdmissionStep(c)
      PROVE  UNCHANGED tables
  BY <1>2 DEF AdmissionStep, LockDelivery, CheckFence, LockTask, Claim,
              CompareIdentity, RequireEffect, FirstWrite, CompareEffect,
              Respond, Step, Finish
<1>3. ASSUME NEW w \in Workers, Wake(w) \/ RetentionStep(w)
      PROVE  UNCHANGED tables
  BY <1>3 DEF RetentionStep, Wake, PlanExpiry, ScrubMember, PlanDeletion,
              LockRetiring, CheckRetiring, LockRetiringTask, PreserveTask,
              DeleteEffects, DeleteMarkers, DeleteRecords, GiveUp, Work
<1>4. ASSUME NEW p \in Procs, Abort(p)
      PROVE  UNCHANGED tables
  BY <1>4 DEF Abort
<1>5. ASSUME Tick \/ UNCHANGED vars
      PROVE  UNCHANGED tables
  BY <1>5 DEF Tick, vars
<1>. HIDE DEF tables
<1>. QED
  BY <1>1, <1>2, <1>3, <1>4, <1>5 DEF Next, DeadlockVictim, Fault

\* What COMMIT of the scrub changes in accepted_records: raw content only.
LEMMA ScrubKeepsRecords ==
  ASSUME Inductive, NEW w \in Workers, CommitExpiry(w)
  PROVE  /\ DOMAIN accepted' = DOMAIN accepted
         /\ \A id \in DOMAIN accepted :
              /\ accepted'[id].rec = accepted[id].rec
              /\ accepted'[id].at = accepted[id].at
         /\ UNCHANGED <<effects, anchors, fences>>
<1>1. \A id \in DOMAIN accepted :
        accepted[id] \in [rec : Records, at : 0..MaxTime, raw : BOOLEAN]
  BY DEF Inductive, TypeOK, TablesOK, TableType
<1>2. /\ DOMAIN accepted' = DOMAIN accepted
      /\ \A id \in DOMAIN accepted :
           \/ accepted'[id] = accepted[id]
           \/ accepted'[id] = [accepted[id] EXCEPT !.raw = FALSE]
  BY DEF CommitExpiry
<1>3. UNCHANGED <<effects, anchors, fences>>
  BY DEF CommitExpiry
<1>. QED
  BY <1>1, <1>2, <1>3

\* While a row exists nobody changes its record, its time or its payload: an
\* INSERT never meets a row, and the foreign key that retention rewrites is no
\* part of the payload.
THEOREM RowsFirstWritten == Spec => FirstWriteWins
<1>. DEFINE Kept ==
       /\ \A id \in DOMAIN accepted \cap DOMAIN accepted' :
            /\ accepted'[id].rec = accepted[id].rec
            /\ accepted'[id].at = accepted[id].at
       /\ \A k \in DOMAIN effects \cap DOMAIN effects' :
            effects'[k].payload = effects[k].payload
<1>1. Inductive /\ RowsInductive /\ [Next]_vars => [Kept]_vars
  <2>. SUFFICES ASSUME Inductive, RowsInductive, [Next]_vars
                PROVE  Kept
    OBVIOUS
  <2>1. ASSUME NEW c \in Conns, CommitAdmission(c)
        PROVE  Kept
    <3>1. \A id \in DOMAIN accepted : accepted'[id] = accepted[id]
      BY <2>1, CommitAddsRecord DEF CommitAdds
    <3>2. \A k \in DOMAIN effects : effects'[k] = effects[k]
      BY <2>1, CommitRows
    <3>. QED
      BY <3>1, <3>2
  <2>2. ASSUME NEW w \in Workers, CommitExpiry(w)
        PROVE  Kept
    BY <2>2, ScrubKeepsRecords
  <2>3. ASSUME NEW w \in Workers, CommitDeletion(w)
        PROVE  Kept
    BY <2>3, CommitLeaves
  <2>4. CASE UNCHANGED tables
    BY <2>4
  <2>. QED
    BY <2>1, <2>2, <2>3, <2>4, OnlyCommitsChange
<1>. QED
  BY <1>1, InductiveInvariant, RowsInvariant, PTL DEF Spec, FirstWriteWins

\* A planned Delivery is still due when its turn comes, whatever happened since
\* the plan was read: the error for one that "disappeared" is not reachable.
THEOREM PlansStayDue == Spec => []PlannedStillDue
<1>1. RowsInductive => PlannedStillDue
  BY DEF RowsInductive
<1>. QED
  BY <1>1, RowsInvariant, PTL

\* A Task's rows live only while a Delivery is in the Task, and any other row
\* while a live record asserts it: retention leaves no orphan.
THEOREM RowsDoNotLinger == Spec => []NothingLingers
<1>1. Inductive /\ RowsInductive => NothingLingers
  <2>. SUFFICES ASSUME Inductive, RowsInductive, NEW k \in DOMAIN effects
                PROVE  IF k[1] \in {"task_declaration", "task_display_name"}
                       THEN \E d \in Deliveries :
                              <<"delivery_task_membership", k[2], d>>
                                \in DOMAIN effects
                       ELSE Asserted(k)
    BY DEF NothingLingers
  <2>1. PICK id \in DOMAIN accepted : id = effects[k].src
    BY DEF Inductive, SourcesAccepted
  <2>2. PICK r \in Records : r = accepted[id].rec
    BY DEF Inductive, TypeOK, TablesOK, TableType
  <2>3. Owns(id, k)
    BY <2>1 DEF RowsInductive, SourceOwns
  <2>4. CASE k[1] \in TaskKinds
    <3>1. IsBinding(r) /\ r.attrs.task_id = k[2]
      BY <2>2, <2>3, <2>4 DEF Owns, BindsTask
    <3>2. Membership(r) \in DOMAIN effects /\ DeliveryOf(r) \in Deliveries
      BY <2>2, <3>1, BindingRows, DeliveryOfRecord DEF IsBinding
    <3>. QED
      BY <2>4, <3>1, <3>2 DEF Membership, TaskKinds
  <2>5. CASE k[1] \notin TaskKinds
    <3>1. Asserts(accepted[id].rec, k)
      BY <2>3, <2>5 DEF Owns
    <3>. QED
      BY <2>5, <3>1 DEF Asserts, Asserted, TaskKinds
  <2>. QED
    BY <2>4, <2>5
<1>. QED
  BY <1>1, InductiveInvariant, RowsInvariant, PTL

\* The foreign key never refuses a statement of apply_delivery_deletion: the
\* records deleted are no row's source, and a Task row's new source is live.
THEOREM DeletionsNotRefused == Spec => []NothingRefused
<1>1. Inductive /\ RowsInductive => NothingRefused
  <2>. SUFFICES ASSUME Inductive, RowsInductive, NEW w \in Workers
                PROVE  /\ wk[w].pc = "delete_records" => OwnedBy(w, Retiring(w)) = {}
                       /\ OtherMembers(w, Retiring(w), wk[w].task) # {} =>
                            Heir(w, Retiring(w), wk[w].task)
                              \in DOMAIN accepted \ wk[w].gone
    BY DEF NothingRefused
  <2>1. wk[w].pc = "delete_records" => OwnedBy(w, Retiring(w)) = {}
    BY DEF RowsInductive, RetiringOwns, Emptied
  <2>. QED
    BY <2>1, HeirBinds
<1>. QED
  BY <1>1, InductiveInvariant, RowsInvariant, PTL

\* If Deliveries share only the rows of their Tasks, a lock protects every row.
LEMMA AllGuarded ==
  ASSUME SharesOnlyTasks, NEW r \in Records, NEW e \in EffectsOf(r)
  PROVE  Guarded(EffectKey(e))
  BY RecordEffects DEF SharesOnlyTasks, Guarded

\* If Deliveries share only the rows of their Tasks, everything a live record
\* projected or required is in the store, whoever was deleted since.
THEOREM ProjectionsComplete ==
  ASSUME SharesOnlyTasks
  PROVE  Spec => []ProjectionComplete
<1>1. Inductive /\ RowsInductive => ProjectionComplete
  <2>. SUFFICES ASSUME Inductive, RowsInductive, NEW id \in DOMAIN accepted,
                       NEW e \in EffectsOf(accepted[id].rec)
                PROVE  Holds(e)
    BY DEF ProjectionComplete
  <2>1. accepted[id].rec \in Records
    BY DEF Inductive, TypeOK, TablesOK, TableType
  <2>2. Guarded(EffectKey(e))
    BY <2>1, AllGuarded
  <2>. QED
    BY <2>2 DEF RowsInductive, GuardedComplete
<1>. QED
  BY <1>1, InductiveInvariant, RowsInvariant, PTL

\* Under the same condition rows leave only with their Delivery: in the COMMIT
\* that fences it, once its terminal summary is old enough, and no row leaves
\* that a remaining record asserts.
THEOREM DeletionsConfined ==
  ASSUME SharesOnlyTasks
  PROVE  Spec => DeletesOnlyThatDelivery
<1>. DEFINE Confined ==
       /\ \A id \in DOMAIN accepted \ DOMAIN accepted' :
            DeliveryOf(accepted[id].rec) \in fences' \ fences
       /\ \A d \in fences' \ fences :
            d \in DOMAIN anchors /\ anchors[d].at + DeliveryTTL <= now
       /\ \A k \in DOMAIN effects \ DOMAIN effects' : ~Asserted(k)'
<1>1. Inductive /\ RowsInductive /\ [Next]_vars => [Confined]_vars
  <2>. SUFFICES ASSUME Inductive, RowsInductive, [Next]_vars
                PROVE  Confined
    OBVIOUS
  <2>1. ASSUME NEW c \in Conns, CommitAdmission(c)
        PROVE  Confined
    <3>1. DOMAIN accepted \subseteq DOMAIN accepted' /\ UNCHANGED fences
      BY <2>1, CommitAddsRecord DEF CommitAdds, CommitAdmission
    <3>2. DOMAIN effects \subseteq DOMAIN effects'
      BY <2>1, CommitRows
    <3>. QED
      BY <3>1, <3>2
  <2>2. ASSUME NEW w \in Workers, CommitExpiry(w)
        PROVE  Confined
    BY <2>2, ScrubKeepsRecords
  <2>3. ASSUME NEW w \in Workers, CommitDeletion(w)
        PROVE  Confined
    <3>1. CommitRemoves(w)
      BY <2>3, CommitRemovesDeliveries
    <3>2. \A id \in DOMAIN accepted \ DOMAIN accepted' :
            DeliveryOf(accepted[id].rec) \in fences' \ fences
      BY <3>1 DEF CommitRemoves
    <3>3. ASSUME NEW d \in wk[w].fenced
          PROVE  d \in DOMAIN anchors /\ anchors[d].at + DeliveryTTL <= now
      <4>1. d \in DOMAIN anchors
        BY <3>1 DEF CommitRemoves
      <4>2. /\ anchors[d].at + DeliveryTTL <= wk[w].at /\ wk[w].at <= now
        BY DEF RowsInductive, DueStill
      <4>3. /\ anchors[d].at \in Nat /\ wk[w].at \in Nat /\ now \in Nat
            /\ DeliveryTTL \in Nat
        BY <4>1, BoundsAssumption
        DEF Inductive, TypeOK, TablesOK, TableType, ProcessesOK, RetentionOK,
            RetentionType
      <4>. QED
        BY <4>1, <4>2, <4>3
    <3>4. ASSUME NEW k \in DOMAIN effects \ DOMAIN effects', Asserted(k)'
          PROVE  FALSE
      <4>1. k \in wk[w].dropped
        BY <2>3, CommitLeaves
      <4>2. PICK id \in DOMAIN accepted' : \E e \in EffectsOf(accepted'[id].rec) :
              e.op = "first_write" /\ EffectKey(e) = k
        BY <3>4 DEF Asserted
      <4>3. id \in DOMAIN accepted /\ accepted'[id] = accepted[id]
        BY <2>3, CommitLeaves
      <4>4. PICK e \in EffectsOf(accepted[id].rec) : EffectKey(e) = k
        BY <4>2, <4>3
      <4>5. accepted[id].rec \in Records
        BY <4>3 DEF Inductive, TypeOK, TablesOK, TableType
      <4>6. Guarded(k) /\ Mentions(accepted[id].rec, k)
        BY <4>4, <4>5, AllGuarded DEF Mentions
      <4>. QED
        BY <2>3, <4>1, <4>6, DroppedUnsaid
    <3>. QED
      BY <3>1, <3>2, <3>3, <3>4 DEF CommitRemoves
  <2>4. CASE UNCHANGED tables
    BY <2>4
  <2>. QED
    BY <2>1, <2>2, <2>3, <2>4, OnlyCommitsChange
<1>. QED
  BY <1>1, InductiveInvariant, RowsInvariant, PTL DEF Spec, DeletesOnlyThatDelivery


-------------------------------------------------------------------------------
(* Raw markers, where one worker runs *)

\* A statement of an iteration changes only its own transaction.
LEMMA QuietMarks ==
  ASSUME MarksInductive, UNCHANGED tables,
         \A w \in Workers : MarksOwned(w)'
  PROVE  MarksInductive'
  BY DEF MarksInductive, ScrubMarked

\* An iteration that starts, ends or is rolled back has marked nothing.
LEMMA MarksFresh ==
  ASSUME NEW w \in Workers,
         wk'[w].marked = {}, wk'[w].unmarked = {}, wk'[w].fenced = {},
         wk'[w].pc # "delete_records"
  PROVE  MarksOwned(w)'
  BY DEF MarksOwned, Unmarking

\* No statement before COMMIT breaks MarksOwned.
LEMMA MarksQuietStep ==
  ASSUME Inductive, MarksInductive, NEW w \in Workers,
         \/ Wake(w) \/ PlanExpiry(w) \/ ScrubMember(w) \/ PlanDeletion(w)
         \/ LockRetiring(w) \/ CheckRetiring(w) \/ LockRetiringTask(w)
         \/ PreserveTask(w) \/ DeleteEffects(w) \/ DeleteMarkers(w)
         \/ DeleteRecords(w)
  PROVE  MarksOwned(w)'
<1>0. /\ wk = [v \in Workers |-> wk[v]] /\ wk[w] \in RetentionType
      /\ MarksOwned(w)
      /\ markers = {id \in DOMAIN accepted : ~accepted[id].raw}
  BY DEF Inductive, TypeOK, ProcessesOK, RetentionOK, MarksInductive, ScrubMarked
<1>1. UNCHANGED tables
  BY DEF Wake, PlanExpiry, ScrubMember, PlanDeletion, LockRetiring,
         CheckRetiring, LockRetiringTask, PreserveTask, DeleteEffects,
         DeleteMarkers, DeleteRecords, GiveUp, Work
<1>2. CASE wk'[w] = Asleep
  BY <1>2, MarksFresh DEF Asleep
<1>3. ASSUME wk'[w].fenced = wk[w].fenced, wk'[w].unmarked = wk[w].unmarked,
             wk'[w].marked \subseteq DOMAIN accepted,
             wk[w].pc # "delete_records", wk'[w].pc # "delete_records",
             wk'[w].pc \in {"plan_expiry", "scrub"} => wk[w].fenced = {}
      PROVE  MarksOwned(w)'
  BY <1>0, <1>1, <1>3 DEF MarksOwned, Unmarking, tables
<1>4. CASE Wake(w)
  <2>1. wk'[w] = [Asleep EXCEPT !.pc = "plan_expiry", !.at = now]
    BY <1>0, <1>4 DEF Wake, Work
  <2>. QED
    BY <2>1, MarksFresh DEF Asleep
<1>5. CASE PlanExpiry(w) /\ wk'[w] # Asleep
  <2>1. /\ wk[w].pc = "plan_expiry"
        /\ wk'[w] = [wk[w] EXCEPT !.pc = "scrub",
                                  !.raws = FirstOf(Expirable(w), BatchSize)]
    BY <1>0, <1>5 DEF PlanExpiry, Work
  <2>. QED
    BY <1>0, <1>3, <2>1 DEF MarksOwned, RetentionType
<1>6. CASE ScrubMember(w) /\ wk'[w] # Asleep
  <2>1. PICK id :
          /\ wk[w].pc = "scrub"
          /\ id \in markers \/ id \in DOMAIN accepted
          /\ wk'[w] = [wk[w] EXCEPT
                         !.raws = @ \ {id},
                         !.marked = IF id \in markers THEN @ ELSE @ \cup {id}]
    BY <1>0, <1>6 DEF ScrubMember, Work, GiveUp
  <2>2. /\ wk'[w].pc = "scrub" /\ wk'[w].fenced = wk[w].fenced
        /\ wk'[w].unmarked = wk[w].unmarked
        /\ wk'[w].marked \subseteq wk[w].marked \cup {id}
        /\ wk'[w].marked = wk[w].marked \/ id \in DOMAIN accepted
    BY <1>0, <2>1 DEF RetentionType
  <2>. QED
    BY <1>0, <1>3, <2>1, <2>2 DEF MarksOwned
<1>7. CASE /\ \/ PlanDeletion(w) \/ LockRetiring(w) \/ CheckRetiring(w)
              \/ LockRetiringTask(w) \/ PreserveTask(w) \/ DeleteEffects(w)
           /\ wk'[w] # Asleep
  <2>1. /\ wk'[w].fenced = wk[w].fenced /\ wk'[w].unmarked = wk[w].unmarked
        /\ wk'[w].marked = wk[w].marked
        /\ wk[w].pc # "delete_records"
        /\ wk'[w].pc \notin {"delete_records", "plan_expiry", "scrub"}
    <3>1. CASE PlanDeletion(w)
      <4>1. /\ wk[w].pc = "plan_deletion"
            /\ wk'[w] = [wk[w] EXCEPT !.pc = "delivery_lock",
                                      !.batch = FirstOf(Retirable(w), BatchSize)]
        BY <1>0, <3>1 DEF PlanDeletion, Work
      <4>. QED
        BY <1>0, <4>1 DEF RetentionType
    <3>2. CASE LockRetiring(w) \/ LockRetiringTask(w)
      <4>1. /\ wk[w].pc \in {"delivery_lock", "task_lock"}
            /\ wk'[w] = [wk[w] EXCEPT !.pc = "check"]
                 \/ wk'[w] = [wk[w] EXCEPT !.pc = "preserve"]
        BY <1>0, <3>2 DEF LockRetiring, LockRetiringTask, Work
      <4>. QED
        BY <1>0, <4>1 DEF RetentionType
    <3>3. CASE CheckRetiring(w)
      <4>. DEFINE guard == View(w)[<<"delivery_task_guard", Retiring(w)>>]
                  t == Get(guard.payload, "task_id")
      <4>1. /\ wk[w].pc = "check"
            /\ \/ wk'[w] = [wk[w] EXCEPT !.pc = "delivery_lock",
                                         !.batch = @ \ {Retiring(w)}]
               \/ wk'[w] = [wk[w] EXCEPT !.pc = "task_lock", !.task = t]
               \/ wk'[w] = [wk[w] EXCEPT !.pc = "delete_effects"]
        BY <1>0, <1>7, <3>3 DEF CheckRetiring, Work, GiveUp
      <4>. QED
        BY <1>0, <4>1 DEF RetentionType
    <3>4. CASE PreserveTask(w)
      <4>. DEFINE d == Retiring(w)
                  t == wk[w].task
                  keys == IF OtherMembers(w, d, t) = {} THEN {}
                                                        ELSE Preserved(w, d, t)
                  moved == {m \in wk[w].moved : m[1] \notin keys}
                             \cup {<<k, Heir(w, d, t)>> : k \in keys}
      <4>1. /\ wk[w].pc = "preserve"
            /\ wk'[w] = [wk[w] EXCEPT !.pc = "delete_effects", !.task = Null,
                                      !.moved = moved]
        BY <1>0, <1>7, <3>4 DEF PreserveTask, Work, GiveUp
      <4>. HIDE DEF moved
      <4>. QED
        BY <1>0, <4>1 DEF RetentionType
    <3>5. CASE DeleteEffects(w)
      <4>1. /\ wk[w].pc = "delete_effects"
            /\ \E dropped, moved :
                 wk'[w] = [wk[w] EXCEPT !.pc = "delete_markers",
                                        !.dropped = dropped, !.moved = moved]
        BY <1>0, <3>5 DEF DeleteEffects, Work
      <4>. QED
        BY <1>0, <4>1 DEF RetentionType
    <3>. QED
      BY <1>7, <3>1, <3>2, <3>3, <3>4, <3>5
  <2>. QED
    BY <1>0, <1>3, <2>1 DEF MarksOwned
<1>8. CASE DeleteMarkers(w)
  <2>1. /\ wk[w].pc = "delete_markers"
        /\ wk'[w] = [wk[w] EXCEPT
                       !.pc = "delete_records",
                       !.unmarked = @ \cup (markers \cap MembersOf(Retiring(w)))]
    BY <1>0, <1>8 DEF DeleteMarkers, Work
  <2>2. /\ wk'[w].pc = "delete_records" /\ wk'[w].fenced = wk[w].fenced
        /\ wk'[w].batch = wk[w].batch /\ wk'[w].marked = wk[w].marked
        /\ wk'[w].unmarked =
             wk[w].unmarked \cup (markers \cap MembersOf(Retiring(w)))
    BY <1>0, <2>1 DEF RetentionType
  <2>3. Retiring(w)' = Retiring(w)
    BY <2>2 DEF Retiring
  <2>4. Unmarking(w)' = Unmarking(w) \cup {Retiring(w)}
    BY <2>1, <2>2, <2>3 DEF Unmarking
  <2>5. markers \cap MembersOf(Retiring(w)) =
          {id \in markers : DeliveryOf(accepted[id].rec) = Retiring(w)}
    BY <1>0 DEF MembersOf
  <2>6. wk'[w].unmarked =
          {id \in markers : DeliveryOf(accepted[id].rec) \in Unmarking(w)'}
    BY <1>0, <2>2, <2>4, <2>5 DEF MarksOwned
  <2>. QED
    BY <1>0, <1>1, <2>2, <2>6 DEF MarksOwned, tables
<1>9. CASE DeleteRecords(w) /\ wk'[w] # Asleep
  <2>1. /\ wk[w].pc = "delete_records"
        /\ wk'[w] = [wk[w] EXCEPT !.pc = "delivery_lock",
                                  !.batch = @ \ {Retiring(w)},
                                  !.gone = @ \cup MembersOf(Retiring(w)),
                                  !.fenced = @ \cup {Retiring(w)}]
    BY <1>0, <1>9 DEF DeleteRecords, Work, GiveUp
  <2>2. /\ wk'[w].pc = "delivery_lock" /\ wk'[w].marked = wk[w].marked
        /\ wk'[w].unmarked = wk[w].unmarked
        /\ wk'[w].fenced = wk[w].fenced \cup {Retiring(w)}
    BY <1>0, <2>1 DEF RetentionType
  <2>3. Unmarking(w)' = Unmarking(w)
    BY <2>1, <2>2 DEF Unmarking
  <2>. QED
    BY <1>0, <1>1, <2>2, <2>3 DEF MarksOwned, tables
<1>. QED
  BY <1>2, <1>4, <1>5, <1>6, <1>7, <1>8, <1>9

\* The COMMIT of an admission adds a record with its raw content and no marker.
LEMMA MarksAdmission ==
  ASSUME Inductive, MarksInductive, NEW c \in Conns, CommitAdmission(c)
  PROVE  MarksInductive'
<1>1. UNCHANGED <<markers, wk>>
  BY DEF CommitAdmission, AdmUnchanged
<1>2. /\ adm[c].rec.id \notin DOMAIN accepted
      /\ DOMAIN accepted' = DOMAIN accepted \cup {adm[c].rec.id}
      /\ \A id \in DOMAIN accepted : accepted'[id] = accepted[id]
  BY CommitAddsRecord DEF CommitAdds
<1>3. accepted'[adm[c].rec.id].raw
  BY <1>2 DEF CommitAdmission, With, Row
<1>4. ScrubMarked'
  BY <1>1, <1>2, <1>3 DEF MarksInductive, ScrubMarked
<1>5. ASSUME NEW w \in Workers
      PROVE  MarksOwned(w)'
  <2>1. markers \subseteq DOMAIN accepted /\ MarksOwned(w)
    BY DEF MarksInductive, ScrubMarked
  <2>2. Unmarking(w)' = Unmarking(w)
    BY <1>1 DEF Unmarking, Retiring
  <2>. QED
    BY <1>1, <1>2, <2>1, <2>2 DEF MarksOwned
<1>. QED
  BY <1>4, <1>5 DEF MarksInductive

\* The COMMIT of a scrub marks what it scrubs.
LEMMA MarksExpiry ==
  ASSUME Inductive, MarksInductive, NEW w \in Workers, CommitExpiry(w),
         \A v \in Workers : v = w
  PROVE  MarksInductive'
<1>1. /\ wk = [v \in Workers |-> wk[v]] /\ MarksOwned(w)
      /\ markers = {id \in DOMAIN accepted : ~accepted[id].raw}
      /\ \A id \in DOMAIN accepted :
           accepted[id] \in [rec : Records, at : 0..MaxTime, raw : BOOLEAN]
  BY DEF Inductive, TypeOK, ProcessesOK, TablesOK, TableType, MarksInductive,
         ScrubMarked
<1>2. /\ markers' = markers \cup wk[w].marked
      /\ DOMAIN accepted' = DOMAIN accepted
      /\ \A id \in DOMAIN accepted :
           accepted'[id] = IF id \in wk[w].marked
                           THEN [accepted[id] EXCEPT !.raw = FALSE]
                           ELSE accepted[id]
  BY DEF CommitExpiry
<1>3. \A id \in DOMAIN accepted :
        accepted'[id].raw = IF id \in wk[w].marked THEN FALSE
                                                   ELSE accepted[id].raw
  BY <1>1, <1>2
<1>4. ScrubMarked'
  BY <1>1, <1>2, <1>3 DEF ScrubMarked, MarksOwned
<1>5. MarksOwned(w)'
  <2>1. /\ wk'[w].marked = {} /\ wk'[w].unmarked = {} /\ wk'[w].fenced = {}
        /\ wk'[w].pc # "delete_records"
    BY <1>1 DEF CommitExpiry, Asleep
  <2>. QED
    BY <2>1, MarksFresh
<1>. QED
  BY <1>4, <1>5 DEF MarksInductive

\* The COMMIT of a deletion removes the members with their markers.
LEMMA MarksDeletion ==
  ASSUME Inductive, MarksInductive, NEW w \in Workers, CommitDeletion(w),
         \A v \in Workers : v = w
  PROVE  MarksInductive'
<1>1. /\ wk = [v \in Workers |-> wk[v]] /\ MarksOwned(w)
      /\ markers = {id \in DOMAIN accepted : ~accepted[id].raw}
  BY DEF Inductive, TypeOK, ProcessesOK, MarksInductive, ScrubMarked
<1>2. /\ markers' = markers \ wk[w].unmarked
      /\ wk[w].pc = "delivery_lock" /\ wk'[w] = Asleep
  BY <1>1 DEF CommitDeletion
<1>3. wk[w].unmarked =
        {id \in markers : DeliveryOf(accepted[id].rec) \in wk[w].fenced}
  BY <1>1, <1>2 DEF MarksOwned, Unmarking
<1>4. /\ DOMAIN accepted' =
           {id \in DOMAIN accepted :
              DeliveryOf(accepted[id].rec) \notin wk[w].fenced}
      /\ \A id \in DOMAIN accepted' : accepted'[id] = accepted[id]
  BY CommitRemovesDeliveries DEF CommitRemoves
<1>5. ScrubMarked'
  BY <1>1, <1>2, <1>3, <1>4 DEF ScrubMarked
<1>6. MarksOwned(w)'
  BY <1>2, MarksFresh DEF Asleep
<1>. QED
  BY <1>5, <1>6 DEF MarksInductive

\* Where one retention worker runs, a RAW_DEBUG marker is there exactly for the
\* records whose raw content is gone, through deletion and re-use of an
\* identity.
THEOREM MarkersMatch ==
  ASSUME \A v, w \in Workers : v = w
  PROVE  Spec => []ScrubMarked
<1>1. Init => MarksInductive
  BY DEF Init, MarksInductive, ScrubMarked, MarksOwned, Unmarking, Asleep,
         EmptyTable
<1>2. Inductive /\ MarksInductive /\ [Next]_vars => MarksInductive'
  <2>. SUFFICES ASSUME Inductive, MarksInductive, [Next]_vars
                PROVE  MarksInductive'
    OBVIOUS
  <2>1. ASSUME NEW c \in Conns, CommitAdmission(c)
        PROVE  MarksInductive'
    BY <2>1, MarksAdmission
  <2>2. ASSUME NEW w \in Workers, CommitExpiry(w) \/ CommitDeletion(w)
        PROVE  MarksInductive'
    BY <2>2, MarksExpiry, MarksDeletion
  <2>3. CASE UNCHANGED <<tables, wk>>
    BY <2>3 DEF MarksInductive, ScrubMarked, MarksOwned, Unmarking, Retiring,
                tables
  <2>4. ASSUME NEW w \in Workers, UNCHANGED tables,
               MarksOwned(w)' 
        PROVE  MarksInductive'
    BY <2>4, QuietMarks
  <2>5. ASSUME NEW w \in Workers, Wake(w) \/ RetentionStep(w),
               ~CommitExpiry(w), ~CommitDeletion(w)
        PROVE  UNCHANGED tables /\ MarksOwned(w)'
    <3>1. MarksOwned(w)'
      BY <2>5, MarksQuietStep DEF RetentionStep
    <3>2. UNCHANGED tables
      BY <2>5 DEF RetentionStep, Wake, PlanExpiry, ScrubMember, PlanDeletion,
                  LockRetiring, CheckRetiring, LockRetiringTask, PreserveTask,
                  DeleteEffects, DeleteMarkers, DeleteRecords, GiveUp, Work
    <3>. QED
      BY <3>1, <3>2
  <2>6. ASSUME NEW p \in Procs, Abort(p)
        PROVE  MarksInductive'
    <3>1. CASE p \in Conns
      BY <2>3, <2>6, <3>1 DEF Abort
    <3>2. CASE p \in Workers \ Conns
      <4>1. wk'[p] = Asleep /\ UNCHANGED tables
        BY <2>6, <3>2 DEF Abort, Inductive, TypeOK, ProcessesOK
      <4>2. MarksOwned(p)'
        BY <3>2, <4>1, MarksFresh DEF Asleep
      <4>. QED
        BY <2>4, <3>2, <4>1, <4>2
    <3>. QED
      BY <3>1, <3>2 DEF Procs
  <2>7. ASSUME NEW c \in Conns, ~CommitAdmission(c),
               AdmissionStep(c) \/ \E r \in Records : Receive(c, r)
        PROVE  UNCHANGED <<tables, wk>>
    BY <2>7 DEF AdmissionStep, Receive, LockDelivery, CheckFence, LockTask,
                Claim, CompareIdentity, RequireEffect, FirstWrite,
                CompareEffect, Respond, Step, Finish, AdmUnchanged
  <2>8. CASE Tick \/ UNCHANGED vars
    BY <2>3, <2>8 DEF Tick, vars, tables
  <2>. HIDE DEF tables
  <2>. QED
    BY <2>1, <2>2, <2>3, <2>4, <2>5, <2>6, <2>7, <2>8
       DEF Next, DeadlockVictim, Fault
<1>3. MarksInductive => ScrubMarked
  BY DEF MarksInductive
<1>. QED
  BY <1>1, <1>2, <1>3, InductiveInvariant, PTL DEF Spec
===============================================================================
