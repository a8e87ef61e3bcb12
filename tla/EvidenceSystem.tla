---------------------------- MODULE EvidenceSystem ----------------------------
(***************************************************************************)
(* The service: admissions on every pooled connection, the retention       *)
(* loops, the clock, and what goes wrong underneath them.                  *)
(***************************************************************************)
EXTENDS Admission, Retention

Init ==
  /\ now = 0
  /\ accepted = EmptyTable
  /\ effects = EmptyTable
  /\ anchors = EmptyTable
  /\ fences = {}
  /\ markers = {}
  /\ holds = [p \in Procs |-> {}]
  /\ adm = [c \in Conns |-> Idle]
  /\ wk = [w \in Workers |-> Asleep]
  /\ sent = 0
  /\ faults = 0

Tick ==
  /\ now < MaxTime
  /\ now' = now + 1
  /\ UNCHANGED <<accepted, effects, anchors, fences, markers, holds, adm, wk,
                 sent, faults>>

\* The transaction of p is rolled back and its locks released: an admission's
\* client gets an error, a worker's iteration ends.
Abort(p) ==
  /\ IF p \in Conns
     THEN /\ adm' = [adm EXCEPT ![p] = [Idle EXCEPT !.pc = "done",
                                                    !.rec = adm[p].rec,
                                                    !.res = "error"]]
          /\ UNCHANGED wk
     ELSE /\ wk' = [wk EXCEPT ![p] = Asleep]
          /\ UNCHANGED adm
  /\ Release(p)
  /\ UNCHANGED <<tables, now, sent>>

\* PostgreSQL's deadlock detector aborts a transaction on a wait cycle.
DeadlockVictim(p) ==
  /\ InFlight(p)
  /\ OnWaitCycle(p)
  /\ Abort(p)
  /\ UNCHANGED faults

\* The connection is lost or the process stops.  Everything uncommitted goes.
\* After the COMMIT only the answer is lost: the client sees an error for a
\* record that is in the store.
Fault(p) ==
  /\ faults < MaxFaults
  /\ InFlight(p) \/ (p \in Conns /\ adm[p].pc = "done" /\ adm[p].res # "error")
  /\ faults' = faults + 1
  /\ Abort(p)

Next ==
  \/ \E c \in Conns : \/ \E r \in Records : Receive(c, r)
                      \/ AdmissionStep(c)
  \/ \E w \in Workers : Wake(w) \/ RetentionStep(w)
  \/ \E p \in Procs : DeadlockVictim(p) \/ Fault(p)
  \/ Tick

Spec == Init /\ [][Next]_vars

-------------------------------------------------------------------------------
(* Types *)

Results == {"none", "accepted", "duplicate", "conflict", "rejected", "error"}
AdmissionPCs == {"idle", "delivery_lock", "fence", "task_lock", "claim",
                 "compare_identity", "apply", "compare", "done"}
DestroyingPCs == {"task_lock", "preserve", "delete_effects", "delete_markers",
                  "delete_records"}
RetentionPCs == {"sleep", "plan_expiry", "scrub", "plan_deletion",
                 "delivery_lock", "check"} \cup DestroyingPCs

\* The keys and the payloads that effects of Records can have.
EffectsOf(r) == LET es == Project(r) IN {es[i] : i \in DOMAIN es}
AllEffects == UNION {EffectsOf(r) : r \in Records}
EffectKeys == {EffectKey(e) : e \in AllEffects}
Payloads == {e.payload : e \in AllEffects}
TaskRefs == {Get(p, "task_id") : p \in Payloads}

TableType(t, keys, values) == DOMAIN t \subseteq keys /\ t \in [DOMAIN t -> values]

AdmissionType ==
  [pc : AdmissionPCs, rec : Records, at : 0..MaxTime, claimed : BOOLEAN,
   idx : Nat, wrote : SUBSET Nat, locked : SUBSET EffectKeys, res : Results]

RetentionType ==
  [pc : RetentionPCs, at : 0..MaxTime, raws : SUBSET Ids,
   batch : SUBSET Deliveries, task : TaskRefs \cup {Null}, marked : SUBSET Ids,
   moved : SUBSET (EffectKeys \X Ids), dropped : SUBSET EffectKeys,
   unmarked : SUBSET Ids, gone : SUBSET Ids, fenced : SUBSET Deliveries]

TablesOK ==
  /\ TableType(accepted, Ids, [rec : Records, at : 0..MaxTime, raw : BOOLEAN])
  /\ \A id \in DOMAIN accepted : accepted[id].rec.id = id
  /\ TableType(effects, EffectKeys, [payload : Payloads, src : Ids])
  /\ TableType(anchors, Deliveries, [id : Ids, at : 0..MaxTime])
  /\ fences \subseteq Deliveries
  /\ markers \subseteq Ids

AdmissionOK(tx) ==
  /\ tx \in AdmissionType
  /\ tx.wrote \subseteq DOMAIN Project(tx.rec)
  /\ tx.pc = "compare" => tx.idx \in DOMAIN Project(tx.rec)

RetentionOK(tx) ==
  /\ tx \in RetentionType
  /\ tx.pc = "check" \/ tx.pc \in DestroyingPCs => tx.batch # {}

ProcessesOK ==
  /\ holds = [p \in Procs |-> holds[p]]
  /\ adm = [c \in Conns |-> adm[c]] /\ \A c \in Conns : AdmissionOK(adm[c])
  /\ wk = [w \in Workers |-> wk[w]] /\ \A w \in Workers : RetentionOK(wk[w])

\* Every variable has its type; an accepted row is keyed by its record's
\* identity, an admission writes effects of its own record only, and an
\* iteration that is deleting has a Delivery to delete.
TypeOK ==
  /\ TablesOK
  /\ ProcessesOK
  /\ now \in 0..MaxTime
  /\ sent \in 0..MaxSends
  /\ faults \in 0..MaxFaults
===============================================================================
