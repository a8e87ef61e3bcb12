------------------------------- MODULE Retention -------------------------------
(***************************************************************************)
(* The retention loop: RetentionService.run_once plans and scrubs expired  *)
(* raw records in one transaction, then plans and physically deletes aged  *)
(* terminal Deliveries in another.  A failure ends the iteration; the loop *)
(* logs it, sleeps and starts over.                                        *)
(*                                                                         *)
(* pc: sleep -> plan_expiry -> scrub -> plan_deletion                      *)
(*       -> (delivery_lock -> check [-> task_lock -> preserve]             *)
(*             -> delete_effects -> delete_markers -> delete_records)*     *)
(*       -> sleep                                                          *)
(* At delivery_lock with an empty batch the transaction commits.           *)
(***************************************************************************)
EXTENDS EvidenceStore

WkUnchanged == UNCHANGED <<now, adm, sent, faults>>

\* The iteration takes its next statement; nothing is visible to others.
Work(w, tx) == wk' = [wk EXCEPT ![w] = tx] /\ UNCHANGED tables

\* An exception rolls the transaction back and ends the iteration.
GiveUp(w) == Work(w, Asleep) /\ Release(w)

\* The Delivery being processed: the batch is worked through in its order.
Retiring(w) == MinOf(wk[w].batch)

\* run_retention_loop wakes up; run_once reads the clock, once.
Wake(w) ==
  /\ wk[w].pc = "sleep"
  /\ Work(w, [Asleep EXCEPT !.pc = "plan_expiry", !.at = now])
  /\ UNCHANGED holds
  /\ WkUnchanged

\* Mutant: a record exactly as old as the TTL is not due.
ExpirableLater(w) ==
  {id \in DOMAIN accepted :
     /\ accepted[id].at + RawTTL < wk[w].at
     /\ id \notin markers
     /\ \E k \in DOMAIN effects : effects[k].src = id}

\* The accepted records whose raw content is due: old enough, not marked, and
\* the source of some projection effect.
Expirable(w) ==
  {id \in DOMAIN accepted :
     /\ accepted[id].at + RawTTL <= wk[w].at
     /\ id \notin markers
     /\ \E k \in DOMAIN effects : effects[k].src = id}

\* ExpiryOwner refuses an owner key with a string over 256 bytes.
Refused(ids) == ids \cap Oversized # {}

\* plan_expiry(RAW_DEBUG).  A refused owner's exception leaves run_once.
PlanExpiry(w) ==
  LET planned == FirstOf(Expirable(w), BatchSize) IN
  /\ wk[w].pc = "plan_expiry"
  /\ Work(w, IF Refused(planned)
             THEN Asleep
             ELSE [wk[w] EXCEPT !.pc = "scrub", !.raws = planned])
  /\ UNCHANGED holds
  /\ WkUnchanged

\* apply_expiry for the next member: lock it, skip it if it is marked, fail if
\* it is gone, else mark it and scrub its logical_record.
ScrubMember(w) ==
  LET id == MinOf(wk[w].raws) IN
  /\ wk[w].pc = "scrub"
  /\ wk[w].raws # {}
  /\ Blockers(w) = {}
  /\ IF id \notin markers /\ id \notin DOMAIN accepted
     THEN GiveUp(w)
     ELSE /\ Work(w, [wk[w] EXCEPT
                        !.raws = @ \ {id},
                        !.marked = IF id \in markers THEN @ ELSE @ \cup {id}])
          /\ Acquire(w, RawLock(id))
  /\ WkUnchanged

\* The end of apply_expiry: COMMIT.
CommitExpiry(w) ==
  LET tx == wk[w] IN
  /\ tx.pc = "scrub"
  /\ tx.raws = {}
  /\ markers' = markers \cup tx.marked
  /\ accepted' = [id \in DOMAIN accepted |->
                    IF id \in tx.marked THEN [accepted[id] EXCEPT !.raw = FALSE]
                                        ELSE accepted[id]]
  /\ wk' = [wk EXCEPT ![w] =
              [Asleep EXCEPT !.pc = IF NeverDelete THEN "sleep"
                                    ELSE "plan_deletion",
                             !.at = IF NeverDelete THEN 0 ELSE tx.at]]
  /\ Release(w)
  /\ UNCHANGED <<effects, anchors, fences>>
  /\ WkUnchanged

\* Mutant: a Delivery exactly as old as the TTL is not due.
RetirableLater(w) ==
  {d \in DOMAIN anchors : anchors[d].at + DeliveryTTL < wk[w].at} \ fences

\* The Deliveries whose terminal anchor is old enough.
Retirable(w) ==
  {d \in DOMAIN anchors : anchors[d].at + DeliveryTTL <= wk[w].at} \ fences

\* Mutant: the batch is not tested for being empty.
PlanUntested(w) ==
  /\ wk[w].pc = "plan_deletion"
  /\ Work(w, [wk[w] EXCEPT !.pc = "check",
                           !.batch = FirstOf(Retirable(w), BatchSize)])
  /\ UNCHANGED holds
  /\ WkUnchanged

\* plan_delivery_deletion
PlanDeletion(w) ==
  /\ wk[w].pc = "plan_deletion"
  /\ Work(w, [wk[w] EXCEPT !.pc = "delivery_lock",
                           !.batch = FirstOf(Retirable(w), BatchSize)])
  /\ UNCHANGED holds
  /\ WkUnchanged

\* Mutant: the Delivery's lock is not taken.
LockNoRetiring(w) ==
  /\ wk[w].pc = "delivery_lock"
  /\ wk[w].batch # {}
  /\ Work(w, [wk[w] EXCEPT !.pc = "check"])
  /\ UNCHANGED holds
  /\ WkUnchanged


\* apply_delivery_deletion for the next Delivery: its advisory lock.
LockRetiring(w) ==
  /\ wk[w].pc = "delivery_lock"
  /\ wk[w].batch # {}
  /\ Acquire(w, DeliveryLock(Retiring(w)))
  /\ Work(w, [wk[w] EXCEPT !.pc = "check"])
  /\ WkUnchanged

\* A fenced Delivery is skipped; a terminal anchor that is gone is an error;
\* otherwise the Delivery's guard row says whether it has a Task.  The rows
\* read are all keyed by the Delivery whose lock is held.
CheckRetiring(w) ==
  LET d == Retiring(w)
      guard == <<"delivery_task_guard", d>>
  IN
  /\ wk[w].pc = "check"
  /\ IF d \notin fences
        /\ (d \notin DOMAIN anchors \/ anchors[d].at + DeliveryTTL > wk[w].at)
     THEN GiveUp(w)
     ELSE /\ Work(w,
               IF d \in fences
               THEN [wk[w] EXCEPT !.pc = "delivery_lock", !.batch = @ \ {d}]
               ELSE IF guard \in DOMAIN View(w)
               THEN [wk[w] EXCEPT !.pc = "task_lock",
                                  !.task = Get(View(w)[guard].payload, "task_id")]
               ELSE [wk[w] EXCEPT !.pc = "delete_effects"])
          /\ UNCHANGED holds
  /\ WkUnchanged

\* _preserve_referenced_task takes the Task's advisory lock ...
LockRetiringTask(w) ==
  /\ wk[w].pc = "task_lock"
  /\ Acquire(w, TaskLock(wk[w].task))
  /\ Work(w, [wk[w] EXCEPT !.pc = "preserve"])
  /\ WkUnchanged

\* ... looks for the first membership of another Delivery in the Task, and
\* makes its record the source of the Task rows the retiring Delivery owns.
\* The foreign key refuses a source that is gone.
PreserveTask(w) ==
  LET d == Retiring(w)
      t == wk[w].task
      keys == IF OtherMembers(w, d, t) = {} THEN {} ELSE Preserved(w, d, t)
  IN
  /\ wk[w].pc = "preserve"
  /\ Blockers(w) = {}
  /\ IF keys # {} /\ Heir(w, d, t) \notin DOMAIN accepted \ wk[w].gone
     THEN GiveUp(w)
     ELSE /\ Work(w, [wk[w] EXCEPT
                        !.pc = "delete_effects",
                        !.task = Null,
                        !.moved = {m \in @ : m[1] \notin keys}
                                    \cup {<<k, Heir(w, d, t)>> : k \in keys}])
          /\ UNCHANGED holds
  /\ WkUnchanged

\* Mutant: the Task's own rows are left to _preserve_referenced_task.
DeleteEffectsButTask(w) ==
  LET owned == {k \in OwnedBy(w, Retiring(w)) :
                  k[1] \notin {"task_declaration", "task_display_name"}}
  IN
  /\ wk[w].pc = "delete_effects"
  /\ Blockers(w) = {}
  /\ Work(w, [wk[w] EXCEPT !.pc = "delete_markers",
                           !.dropped = @ \cup owned,
                           !.moved = {m \in @ : m[1] \notin owned}])
  /\ UNCHANGED holds
  /\ WkUnchanged

\* DELETE FROM projection_effects: the rows whose source is a member.
DeleteEffects(w) ==
  LET owned == OwnedBy(w, Retiring(w)) IN
  /\ wk[w].pc = "delete_effects"
  /\ Blockers(w) = {}
  /\ Work(w, [wk[w] EXCEPT !.pc = "delete_markers",
                           !.dropped = @ \cup owned,
                           !.moved = {m \in @ : m[1] \notin owned}])
  /\ UNCHANGED holds
  /\ WkUnchanged

\* Mutant: the members' markers are left behind.
DeleteNoMarkers(w) ==
  /\ wk[w].pc = "delete_markers"
  /\ Work(w, [wk[w] EXCEPT !.pc = "delete_records"])
  /\ UNCHANGED holds
  /\ WkUnchanged

\* DELETE FROM retention_expiry_markers: the members' markers.
DeleteMarkers(w) ==
  /\ wk[w].pc = "delete_markers"
  /\ Work(w, [wk[w] EXCEPT
                !.pc = "delete_records",
                !.unmarked = @ \cup (markers \cap MembersOf(Retiring(w)))])
  /\ UNCHANGED holds
  /\ WkUnchanged

\* Mutant: only the terminal summary is deleted.
DeleteAnchorOnly(w) ==
  LET d == Retiring(w) IN
  /\ wk[w].pc = "delete_records"
  /\ Blockers(w) = {}
  /\ Work(w, [wk[w] EXCEPT !.pc = "delivery_lock",
                           !.batch = @ \ {d},
                           !.gone = @ \cup {anchors[d].id},
                           !.fenced = @ \cup {d}])
  /\ UNCHANGED holds
  /\ WkUnchanged

\* Mutant: no fence is left.
DeleteUnfenced(w) ==
  LET d == Retiring(w) IN
  /\ wk[w].pc = "delete_records"
  /\ Blockers(w) = {}
  /\ Work(w, [wk[w] EXCEPT !.pc = "delivery_lock",
                           !.batch = @ \ {d},
                           !.gone = @ \cup MembersOf(d)])
  /\ UNCHANGED holds
  /\ WkUnchanged

\* DELETE FROM accepted_records (the memberships cascade) and the retirement
\* fence.  The foreign key of projection_effects refuses the DELETE
\* while an effect still names a member as its source.
DeleteRecords(w) ==
  LET d == Retiring(w) IN
  /\ wk[w].pc = "delete_records"
  /\ Blockers(w) = {}
  /\ IF OwnedBy(w, d) # {}
     THEN GiveUp(w)
     ELSE /\ Work(w, [wk[w] EXCEPT !.pc = "delivery_lock",
                                   !.batch = @ \ {d},
                                   !.gone = @ \cup MembersOf(d),
                                   !.fenced = @ \cup {d}])
          /\ UNCHANGED holds
  /\ WkUnchanged

\* Mutant: the new sources of the Task rows are not part of the transaction.
CommitUnmoved(w) ==
  LET tx == wk[w] IN
  /\ tx.pc = "delivery_lock"
  /\ tx.batch = {}
  /\ accepted' = Without(accepted, tx.gone)
  /\ effects' = Without(effects, tx.dropped)
  /\ anchors' = Without(anchors, {d \in DOMAIN anchors :
                                    anchors[d].id \in tx.gone})
  /\ fences' = fences \cup tx.fenced
  /\ markers' = markers \ tx.unmarked
  /\ wk' = [wk EXCEPT ![w] = Asleep]
  /\ Release(w)
  /\ WkUnchanged

\* The batch is done: COMMIT.  The anchors of deleted summaries cascade.
CommitDeletion(w) ==
  LET tx == wk[w] IN
  /\ tx.pc = "delivery_lock"
  /\ tx.batch = {}
  /\ accepted' = Without(accepted, tx.gone)
  /\ effects' = View(w)
  /\ anchors' = Without(anchors, {d \in DOMAIN anchors :
                                    anchors[d].id \in tx.gone})
  /\ fences' = fences \cup tx.fenced
  /\ markers' = markers \ tx.unmarked
  /\ wk' = [wk EXCEPT ![w] = Asleep]
  /\ Release(w)
  /\ WkUnchanged

\* The statements of a running iteration.
RetentionStep(w) ==
  \/ PlanExpiry(w) \/ ScrubMember(w) \/ CommitExpiry(w) \/ PlanDeletion(w)
  \/ LockRetiring(w) \/ CheckRetiring(w) \/ LockRetiringTask(w)
  \/ PreserveTask(w) \/ DeleteEffects(w) \/ DeleteMarkers(w)
  \/ DeleteRecords(w) \/ CommitDeletion(w)
===============================================================================
